---- MODULE Spec2Model ----
(***************************************************************************)
(* distill (zetlen/makesure): the change-analysis pipeline.                *)
(*                                                                         *)
(*   loadConfig -> processFiles -> processSignal -> applyWatch ->          *)
(*   createFilterResult -> executeReport                                   *)
(*                                                                         *)
(* Two specifications:                                                     *)
(*   SpecWatch  applyWatch as a function of (watch, versions, filePath),   *)
(*              the external tools being tables over literal contents.     *)
(*   Spec       DiffCommand.run from loadConfig on: the processFiles loop  *)
(*              with one step per await of the runner and of the watches.  *)
(***************************************************************************)
EXTENDS Integers, Sequences, FiniteSets, TLC

VARIABLES
    mode,       \* which specification is running: "watch" or "run"
    wWatch,     \* SpecWatch: the watch configuration under test
    wVersions,  \* SpecWatch: FileVersions {oldContent, newContent}
    wFilePath,  \* SpecWatch: filePath argument
    wResult,    \* SpecWatch: outcome of applyWatch, or Pending
    env,        \* which external tools are installed
    yaml,       \* the configuration document on disk
    config,     \* the loaded DistillConfig (NoConfig before loadConfig)
    files,      \* File[] handed to processFiles
    store,      \* the content provider: ref -> path -> content or Null
    pc,         \* position of the runner
    fi, ci, si, \* processFiles loop indices (file, concern entry, signal)
    reports,    \* processFiles' local `reports`
    outcome,    \* "running", "returned" or "threw"
    thrown,     \* the error processFiles or loadConfig rejected with
    cur,        \* processSignal's locals for the pair in progress
    calls,      \* every call made to the content provider, in order
    trail,      \* history: the (file, concern, signal) pairs finished and how
    rKind,      \* SpecResolve: which resolver is called ("signals", "watches", "reports")
    rRef,       \* SpecResolve: its ref argument
    rDefined,   \* SpecResolve: its defined argument
    rResult,    \* SpecResolve: what it returned or threw, or Pending
    argv,       \* SpecDiff: the command line {base, head, staged, json}
    git,        \* SpecDiff: the trees of HEAD, main, the index and the working tree
    resolved,   \* SpecDiff: what resolveRefs returned
    out,        \* SpecDiff: what the command returned to oclif or logged, or Pending
    tLeft,      \* SpecTemp: createDiffText's left argument
    tRight,     \* SpecTemp: createDiffText's right argument
    tFault,     \* SpecTemp: which writeFile call fails ("none", "left", "right")
    tPc,        \* SpecTemp: position of createDiffText
    tFiles,     \* SpecTemp: the temporary files of this call that exist in tmpdir()
    tResult,    \* SpecTemp: what createDiffText returned or threw, or Pending
    gExt,       \* SpecGrammar: the extension each tsq watch run asks a grammar for
    gPc,        \* SpecGrammar: position of each tsq watch run
    gRet,       \* SpecGrammar: what getLanguageForExtension returned to each run
    treeSitterInitialized, \* SpecGrammar: the module's flag of that name
    languageCache,         \* SpecGrammar: the module's cache, as the set of its keys
    gLoads,     \* SpecGrammar: how often Language.load was called for each wasm file
    concerns,   \* SpecCheck: context.concerns of the checkset runner
    nConfigs,   \* SpecNotify: the NotifyConfig[] handed to processNotifications
    nFail,      \* SpecNotify: the GitHub API calls that reject
    nPc,        \* SpecNotify: position of processNotifications
    nCalls,     \* SpecNotify: the GitHub API calls issued, in order
    nWarnings,  \* SpecNotify: what console.warn was called with
    nResult     \* SpecNotify: "pending", "returned" or "threw"

vars == <<mode, wWatch, wVersions, wFilePath, wResult, env, yaml, config,
          files, store, pc, fi, ci, si, reports, outcome, thrown, cur, calls, trail,
          rKind, rRef, rDefined, rResult, argv, git, resolved, out,
          tLeft, tRight, tFault, tPc, tFiles, tResult,
          gExt, gPc, gRet, treeSitterInitialized, languageCache, gLoads, concerns,
          nConfigs, nFail, nPc, nCalls, nWarnings, nResult>>

watchVars == <<wWatch, wVersions, wFilePath, wResult>>
resolveVars == <<rKind, rRef, rDefined, rResult>>
diffVars == <<argv, git, resolved, out>>
tempVars == <<tLeft, tRight, tFault, tPc, tFiles, tResult>>
grammarVars == <<gExt, gPc, gRet, treeSitterInitialized, languageCache, gLoads>>
checkVars == <<concerns>>
notifyVars == <<nConfigs, nFail, nPc, nCalls, nWarnings, nResult>>
runVars == <<yaml, config, files, store, pc, fi, ci, si, reports, outcome, thrown, cur, calls, trail>>

-----------------------------------------------------------------------------
(* Bounds *)

MaxFiles == 2
MaxSignals == 2

-----------------------------------------------------------------------------
(* Values *)

\* JavaScript null / undefined for a string-valued slot
Null == "<null>"

\* a falsy string-or-null: `!content`
Falsy(s) == s = Null \/ s = ""

\* literal file contents
Empty == ""
JsonV1 == "{\"version\":\"1.0.0\"}"
JsonV2 == "{\"version\":\"2.0.0\"}"
JsonV1Junk == "{\"version\":\"1.0.0\"} oops"
JsFoo == "function foo() {}"
JsBar == "function bar() {}"
XmlV1 == "<project><version>1.0.0</version></project>"
XmlV2 == "<project><version>2.0.0</version></project>"
TxtVersions == "1.0.0\n1.5.0"

Contents == {Empty, JsonV1, JsonV2, JsonV1Junk, JsFoo, JsBar, XmlV1, XmlV2, TxtVersions}
MaybeContents == Contents \cup {Null}

\* the version string a content carries, "" when it carries none
VersionIn(content) ==
    CASE content \in {JsonV1, JsonV1Junk, XmlV1} -> "1.0.0"
      [] content \in {JsonV2, XmlV2} -> "2.0.0"
      [] OTHER -> ""

\* paths
DevNull == "/dev/null"
Paths == {"a.js", "b.js", "pkg.json", "pom.xml", "Makefile", DevNull, ""}

\* node:path extname
extname(path) ==
    CASE path \in {"a.js", "b.js"} -> ".js"
      [] path = "pkg.json" -> ".json"
      [] path = "pom.xml" -> ".xml"
      [] OTHER -> ""

\* minimatch(filePath, pattern) for the include globs used below: a pattern without magic
\* matches the identical path; "*.ext" matches a slash-free, non-dot path
\* with a non-empty stem and that extension
minimatch(filePath, pattern) ==
    CASE pattern = "*.js" -> filePath \in {"a.js", "b.js"}
      [] pattern = "*.json" -> filePath = "pkg.json"
      [] pattern = "*.xml" -> filePath = "pom.xml"
      [] OTHER -> filePath = pattern /\ filePath # ""

-----------------------------------------------------------------------------
(* Results and errors *)

Ok(v) == [ok |-> TRUE, val |-> v, err |-> ""]
Throw(msg) == [ok |-> FALSE, val |-> "", err |-> msg]

\* ExtractedContent
Extracted(text, context) == [text |-> text, context |-> context]
EmptyExtraction == Extracted("", <<>>)

ErrTsqNoExt == "TSQ filter requires a file extension"
ErrTsqUnsupported == "Unsupported language for extension"
ErrPathType == "The \"path\" argument must be of type string"
ErrAstGrepNoLang == "ast-grep filter requires a language to be specified"
ErrAstGrepMissing == "ast-grep command not found"
ErrAstGrepExit == "ast-grep exited with code"
ErrJqExit == "jq exited with code"
ErrSpawn == "spawn ENOENT"
ErrRegExp == "Invalid regular expression"
ErrRegExpFlags == "Invalid flags supplied to RegExp constructor"
ErrTemplate == "Parse error"
ErrInvalidPattern == "invalid pattern"

\* the errors a watch raises for a violated configuration contract
ContractErrors == {ErrTsqNoExt, ErrTsqUnsupported, ErrAstGrepNoLang}

-----------------------------------------------------------------------------
(* Sequence helpers *)

RECURSIVE JoinWith(_, _)
\* Array.prototype.join(sep)
JoinWith(seq, sep) ==
    IF seq = <<>> THEN ""
    ELSE IF Len(seq) = 1 THEN seq[1]
    ELSE seq[1] \o sep \o JoinWith(Tail(seq), sep)

RECURSIVE Dedup(_)
\* the insertion order of a Set built from a sequence
Dedup(seq) ==
    IF seq = <<>> THEN <<>>
    ELSE LET init == Dedup(SubSeq(seq, 1, Len(seq) - 1))
             last == seq[Len(seq)]
         IN IF \E i \in 1..Len(init) : init[i] = last THEN init ELSE Append(init, last)

-----------------------------------------------------------------------------
(* External tools: what each prints and how it exits on the contents above *)

\* a finished child process
Proc(code, stdout) == [spawned |-> TRUE, code |-> code, stdout |-> stdout]
\* spawn failed: the 'error' event
NoProc == [spawned |-> FALSE, code |-> 0 - 1, stdout |-> ""]

JqQueries == {".version", ".name", ".["}

\* jq <query> on stdin: exit 3 on a query that does not compile, exit 2 on
\* input that is not JSON (after printing the results of the values read
\* before the error), exit 0 otherwise
JqProc(query, content) ==
    IF ~env.jq THEN NoProc
    ELSE IF query = ".[" THEN Proc(3, "")
    ELSE IF content \in {JsonV1, JsonV2}
         THEN Proc(0, IF query = ".version" THEN "\"" \o VersionIn(content) \o "\"\n" ELSE "null\n")
    ELSE IF content = JsonV1Junk
         THEN Proc(2, IF query = ".version" THEN "\"1.0.0\"\n" ELSE "null\n")
    ELSE Proc(2, "")

SemverPattern == "\\d+\\.\\d+\\.\\d+"
MajorPattern == "(?<major>\\d+)\\.\\d+\\.\\d+"
RegexPatterns == {"foo", SemverPattern, MajorPattern, "("}
RegexFlags == {"", "i", "g", "m"}

\* the characters of a flags string
FlagChars(flags) ==
    CASE flags = "" -> <<>>
      [] flags = "i" -> <<"i">>
      [] flags = "g" -> <<"g">>
      [] flags = "m" -> <<"m">>
      [] flags = "gm" -> <<"g", "m">>
      [] flags = "igm" -> <<"i", "g", "m">>
      [] flags = "mgm" -> <<"m", "g", "m">>

\* flags.includes('g')
IncludesG(flags) == \E i \in 1..Len(FlagChars(flags)) : FlagChars(flags)[i] = "g"

\* new RegExp(pattern, flags) accepts the flags: known letters, none of them twice
ValidFlags(flags) ==
    LET chars == FlagChars(flags)
    IN /\ \A i \in 1..Len(chars) : chars[i] \in {"d", "g", "i", "m", "s", "u", "v", "y"}
       /\ \A i, j \in 1..Len(chars) : chars[i] = chars[j] => i = j

\* new RegExp(pattern, flags) succeeds
RegExpCompiles(pattern, flags) == ValidFlags(flags) /\ pattern # "("

\* one element of content.matchAll(regex): m[0] and m.groups
Match(text, named, groups) == [text |-> text, named |-> named, groups |-> groups]

\* [...content.matchAll(regex)]
matchAll(content, pattern, flags) ==
    CASE pattern = "foo" /\ content = JsFoo -> <<Match("foo", FALSE, [major |-> ""])>>
      [] pattern = SemverPattern /\ VersionIn(content) # ""
           -> <<Match(VersionIn(content), FALSE, [major |-> ""])>>
      [] pattern = SemverPattern /\ content = TxtVersions
           -> <<Match("1.0.0", FALSE, [major |-> ""]), Match("1.5.0", FALSE, [major |-> ""])>>
      [] pattern = MajorPattern /\ content = TxtVersions
           -> <<Match("1.0.0", TRUE, [major |-> "1"]), Match("1.5.0", TRUE, [major |-> "1"])>>
      [] pattern = MajorPattern /\ VersionIn(content) # ""
           -> <<Match(VersionIn(content), TRUE,
                      [major |-> IF VersionIn(content) = "1.0.0" THEN "1" ELSE "2"])>>
      [] OTHER -> <<>>

XPathExpressions == {"string(//version)", "//version", "//["}

\* select(expression, new DOMParser().parseFromString(content)): the value
\* selected, or a throw (expression that does not parse)
XPathSelect(expression, content) ==
    IF expression = "//[" THEN [throws |-> TRUE, kind |-> "", str |-> "", nodes |-> <<>>]
    ELSE IF expression = "string(//version)"
         THEN [throws |-> FALSE, kind |-> "string",
               str |-> IF content \in {XmlV1, XmlV2} THEN VersionIn(content) ELSE "", nodes |-> <<>>]
    ELSE [throws |-> FALSE, kind |-> "nodes", str |-> "",
          nodes |-> IF content \in {XmlV1, XmlV2}
                    THEN <<"<version>" \o VersionIn(content) \o "</version>">> ELSE <<>>]

\* LANGUAGE_WASM_MAP
SupportedExtensions ==
    {".c", ".cpp", ".cxx", ".go", ".h", ".hpp", ".java", ".js", ".json", ".jsx",
     ".mjs", ".py", ".rs", ".ts", ".tsx"}

TsqNameQuery == "(function_declaration name: (identifier) @name)"
TsqFnQuery == "(function_declaration name: (identifier) @name) @fn"
TsqQueries == {TsqNameQuery, TsqFnQuery, "(("}
JsExtensions == {".js", ".jsx", ".mjs"}
TsqLanguages == {"", ".JS", ".xyz", "constructor"}

\* one capture of a match: capture name and the node's id, span and text
Capture(name, id, startIndex, endIndex, text) ==
    [name |-> name, node |-> [id |-> id, startIndex |-> startIndex, endIndex |-> endIndex, text |-> text]]

\* new Query(language, query).matches(parse(content).rootNode): the captures
\* of each match, or a throw (query that does not compile for the grammar)
TsqMatches(ext, query, content) ==
    IF query = "((" \/ ext \notin JsExtensions THEN [throws |-> TRUE, matches |-> <<>>]
    ELSE IF content \notin {JsFoo, JsBar} THEN [throws |-> FALSE, matches |-> <<>>]
    ELSE LET ident == IF content = JsFoo THEN "foo" ELSE "bar"
             name == Capture("name", 2, 9, 12, ident)
             fn == Capture("fn", 1, 0, 17, content)
         IN [throws |-> FALSE,
             matches |-> IF query = TsqNameQuery THEN << <<name>> >> ELSE << <<fn, name>> >>]

AstGrepLanguages == {"javascript", "klingon", ""}
AstGrepPatterns == {"function $NAME() {}"}

\* stdout of ast-grep --json: nothing, or a JSON array of matches
AgOut(raw, matches) == [raw |-> raw, matches |-> matches]

\* ast-grep run -p <pattern> --lang <language> --json --stdin: exit 2 with a
\* usage message on a language it does not know
AstGrepProc(language, pattern, content) ==
    IF ~env.astGrep THEN [spawned |-> FALSE, code |-> 0 - 1, stdout |-> AgOut("", <<>>)]
    ELSE IF language # "javascript" THEN [spawned |-> TRUE, code |-> 2, stdout |-> AgOut("", <<>>)]
    ELSE IF content \in {JsFoo, JsBar}
         THEN [spawned |-> TRUE, code |-> 0,
               stdout |-> AgOut("json", <<[text |-> content,
                                           single |-> [NAME |-> IF content = JsFoo THEN "foo" ELSE "bar"]]>>)]
    ELSE [spawned |-> TRUE, code |-> 1, stdout |-> AgOut("json", <<>>)]

\* the lines of an artifact
Lines(artifact) ==
    IF artifact = "" THEN <<>>
    ELSE IF artifact = "1.0.0\n1.5.0" THEN <<"1.0.0", "1.5.0">> ELSE <<artifact>>

\* diff -u on two artifacts of at most two lines each: the text, and the
\* first hunk header "@@ -a,b +c,d @@" it contains (",d" is left out when d = 1)
DiffU(left, right) ==
    LET l == Lines(left)
        r == Lines(right)
        range(n) == IF n = 0 THEN "0,0" ELSE IF n = 1 THEN "1" ELSE "1,2"
        kept == IF l # <<>> /\ r # <<>> /\ l[1] = r[1] THEN 1 ELSE 0
        body(prefix, ls) == JoinWith([i \in 1..Len(ls) |-> prefix \o ls[i] \o "\n"], "")
    IN IF left = right
       THEN [text |-> "", hunk |-> [present |-> FALSE, newStart |-> 0, hasNewLines |-> FALSE, newLines |-> 0]]
       ELSE [text |-> "--- left\n+++ right\n"
                      \o "@@ -" \o range(Len(l)) \o " +" \o range(Len(r)) \o " @@\n"
                      \o body(" ", SubSeq(l, 1, kept))
                      \o body("-", SubSeq(l, kept + 1, Len(l)))
                      \o body("+", SubSeq(r, kept + 1, Len(r))),
             hunk |-> [present |-> TRUE, newStart |-> IF Len(r) = 0 THEN 0 ELSE 1,
                       hasNewLines |-> Len(r) # 1, newLines |-> Len(r)]]

-----------------------------------------------------------------------------
(* watches/utils.ts *)

\* runWithStdin(command, args, input): resolves with stdout, or rejects
runWithStdin(command, args, input) ==
    LET proc == JqProc(args, input)
    IN IF ~proc.spawned THEN Throw(ErrSpawn)
       ELSE IF proc.code = 0 THEN Ok(proc.stdout)
       ELSE IF proc.stdout # "" THEN Ok(proc.stdout)
       ELSE Throw(ErrJqExit)

\* createDiffText(left, right): '' when diff cannot be spawned
createDiffText(left, right) ==
    IF env.diff THEN DiffU(left, right)
    ELSE [text |-> "", hunk |-> [present |-> FALSE, newStart |-> 0, hasNewLines |-> FALSE, newLines |-> 0]]

NoLineRange == [defined |-> FALSE, start |-> 0, end |-> 0]

\* parseLineRange with an exclusive end
parseLineRange_exclusiveEnd(diff) ==
    IF ~diff.hunk.present THEN NoLineRange
    ELSE LET start == diff.hunk.newStart
             lines == IF diff.hunk.hasNewLines THEN diff.hunk.newLines ELSE 1
         IN [defined |-> TRUE, start |-> start, end |-> start + lines]

\* parseLineRange(diffText): new-side range of the first hunk header
parseLineRange(diff) ==
    IF ~diff.hunk.present THEN NoLineRange
    ELSE LET start == diff.hunk.newStart
             lines == IF diff.hunk.hasNewLines THEN diff.hunk.newLines ELSE 1
         IN [defined |-> TRUE, start |-> start, end |-> start + lines - 1]

\* outcomes of applying a watch
WNull == [status |-> "null"]
WResult(r) == [status |-> "result", result |-> r]
WThrow(msg) == [status |-> "throw", err |-> msg]

\* createFilterResult without its equality test: a result whatever the artifacts
createFilterResult_noEqualityTest(leftArtifact, rightArtifact, shouldExtractLineRange) ==
    LET diff == createDiffText(leftArtifact, rightArtifact)
    IN WResult([diffText |-> diff.text,
                left |-> [artifact |-> leftArtifact],
                right |-> [artifact |-> rightArtifact],
                lineRange |-> IF shouldExtractLineRange THEN parseLineRange(diff) ELSE NoLineRange,
                hasContext |-> FALSE,
                context |-> <<>>])

\* createFilterResult(leftArtifact, rightArtifact, shouldExtractLineRange)
createFilterResult(leftArtifact, rightArtifact, shouldExtractLineRange) ==
    IF leftArtifact = rightArtifact THEN WNull
    ELSE LET diff == createDiffText(leftArtifact, rightArtifact)
         IN WResult([diffText |-> diff.text,
                     left |-> [artifact |-> leftArtifact],
                     right |-> [artifact |-> rightArtifact],
                     lineRange |-> IF shouldExtractLineRange THEN parseLineRange(diff) ELSE NoLineRange,
                     hasContext |-> FALSE,
                     context |-> <<>>])

\* results of an extractor call that may reject
ExtOk(e) == [ok |-> TRUE, ext |-> e, err |-> ""]
ExtThrow(msg) == [ok |-> FALSE, ext |-> EmptyExtraction, err |-> msg]

\* processFilter that reports nothing when the right side extracts nothing
processFilterMerge_ignoresRemovals(left, right) ==
    LET allContexts == Dedup(left.context \o right.context)
        result == IF right.text = "" THEN WNull ELSE createFilterResult(left.text, right.text, TRUE)
    IN IF result.status = "result" /\ Len(allContexts) > 0
       THEN WResult([result.result EXCEPT !.hasContext = TRUE, !.context = allContexts])
       ELSE result

\* processFilter after Promise.all has resolved to [left, right]
processFilterMerge(left, right) ==
    LET allContexts == Dedup(left.context \o right.context)
        result == createFilterResult(left.text, right.text, TRUE)
    IN IF result.status = "result" /\ Len(allContexts) > 0
       THEN WResult([result.result EXCEPT !.hasContext = TRUE, !.context = allContexts])
       ELSE result

\* processFilter(versions, extractor), given what the extractor does on each side
processFilter(versions, left, right) ==
    IF versions.oldContent = Null /\ versions.newContent = Null THEN WNull
    ELSE IF ~left.ok THEN WThrow(left.err)
    ELSE IF ~right.ok THEN WThrow(right.err)
    ELSE processFilterMerge(left.ext, right.ext)

-----------------------------------------------------------------------------
(* The five watches *)

\* a watch configuration; fields a kind does not have are "". include is
\* held as the list matchesInclude makes of it: the array itself, or the
\* single value as a one-element list, which is <<Null>> when the watch has
\* no include
Watch(type, include, arg, flags, language, capture) ==
    [use |-> Null, type |-> type, include |-> include,
     query |-> IF type \in {"jq", "tsq"} THEN arg ELSE "",
     pattern |-> IF type \in {"regex", "ast-grep"} THEN arg ELSE "",
     expression |-> IF type = "xpath" THEN arg ELSE "",
     flags |-> flags, language |-> language, capture |-> capture]

\* runJq(content, query)
runJq(content, query) == runWithStdin("jq", query, content)

\* jqFilter.apply(versions, config)
jqFilter_apply(versions, cfg) ==
    IF versions.oldContent = Null /\ versions.newContent = Null THEN WNull
    ELSE LET leftArtifact == IF Falsy(versions.oldContent) THEN Ok("") ELSE runJq(versions.oldContent, cfg.query)
             rightArtifact == IF Falsy(versions.newContent) THEN Ok("") ELSE runJq(versions.newContent, cfg.query)
         IN IF ~leftArtifact.ok THEN WThrow(leftArtifact.err)
            ELSE IF ~rightArtifact.ok THEN WThrow(rightArtifact.err)
            ELSE createFilterResult(leftArtifact.val, rightArtifact.val, FALSE)

\* regexFilter.apply: effectiveFlags
effectiveFlags(flags) == IF IncludesG(flags) THEN flags ELSE flags \o "gm"

\* regexFilter.apply: extractMatches(content)
extractMatches(cfg, content) ==
    IF Falsy(content) THEN EmptyExtraction
    ELSE LET matches == matchAll(content, cfg.pattern, effectiveFlags(cfg.flags))
             named == SelectSeq(matches, LAMBDA m : m.named)
         IN IF Len(matches) = 0 THEN EmptyExtraction
            ELSE Extracted(JoinWith([i \in 1..Len(matches) |-> matches[i].text], "\n"),
                           << [i \in 1..Len(named) |-> named[i].groups] >>)

\* regexFilter.apply(versions, config)
regexFilter_apply(versions, cfg) ==
    IF ~ValidFlags(effectiveFlags(cfg.flags)) THEN WThrow(ErrRegExpFlags)
    ELSE IF ~RegExpCompiles(cfg.pattern, effectiveFlags(cfg.flags)) THEN WThrow(ErrRegExp)
    ELSE processFilter(versions, ExtOk(extractMatches(cfg, versions.oldContent)),
                                 ExtOk(extractMatches(cfg, versions.newContent)))

\* xpathFilter.apply: extractNodes(content)
xpathExtractNodes(cfg, content) ==
    IF Falsy(content) THEN ""
    ELSE LET sel == XPathSelect(cfg.expression, content)
         IN IF sel.throws THEN ""
            ELSE IF sel.kind = "string" THEN sel.str
            ELSE IF Len(sel.nodes) = 0 THEN ""
            ELSE JoinWith(sel.nodes, "\n")

\* xpathFilter.apply(versions, config)
xpathFilter_apply(versions, cfg) ==
    IF versions.oldContent = Null /\ versions.newContent = Null THEN WNull
    ELSE createFilterResult(xpathExtractNodes(cfg, versions.oldContent),
                            xpathExtractNodes(cfg, versions.newContent), TRUE)

\* String.prototype.toLowerCase on an extension
toLowerCase(ext) == IF ext = ".JS" THEN ".js" ELSE ext

\* getLanguageForExtension(ext, ts) throws: LANGUAGE_WASM_MAP[key] is a value
\* inherited from Object.prototype, which is truthy and which path.join rejects
getLanguageForExtension_throws(ext) == toLowerCase(ext) \in {"constructor", "__proto__"}

\* getLanguageForExtension(ext, ts): the grammar's extension key, Null if none
getLanguageForExtension(ext) ==
    IF toLowerCase(ext) \in SupportedExtensions /\ env.grammars THEN toLowerCase(ext) ELSE Null

\* tsqFilter.apply: the captures of a match that are content
contentCaptures(captures, capture) ==
    IF ~Falsy(capture) THEN SelectSeq(captures, LAMBDA c : c.name = capture)
    ELSE SelectSeq(captures, LAMBDA c :
            ~\E j \in 1..Len(captures) :
                 /\ captures[j] # c
                 /\ captures[j].node.startIndex <= c.node.startIndex
                 /\ captures[j].node.endIndex >= c.node.endIndex
                 /\ (captures[j].node.startIndex < c.node.startIndex
                       \/ captures[j].node.endIndex > c.node.endIndex))

RECURSIVE Flatten(_)
\* concatenation of a sequence of sequences
Flatten(seqs) == IF seqs = <<>> THEN <<>> ELSE seqs[1] \o Flatten(Tail(seqs))

RECURSIVE FirstById(_)
\* the nodes of a capture sequence, each node id kept at its first occurrence
FirstById(caps) ==
    IF caps = <<>> THEN <<>>
    ELSE LET init == FirstById(SubSeq(caps, 1, Len(caps) - 1))
             last == caps[Len(caps)]
         IN IF \E i \in 1..Len(init) : init[i].node.id = last.node.id THEN init ELSE Append(init, last)

\* tsqFilter.apply: the context entry of a match ({} when it has none)
matchContext(captures, capture) ==
    LET content == contentCaptures(captures, capture)
        rest == SelectSeq(captures, LAMBDA c : ~\E i \in 1..Len(content) : content[i] = c)
    IN [has |-> Len(rest) > 0,
        entry |-> [n \in {rest[i].name : i \in 1..Len(rest)} |->
                      LET last == CHOOSE i \in 1..Len(rest) :
                                     rest[i].name = n /\ \A j \in 1..Len(rest) : rest[j].name = n => j <= i
                      IN rest[last].node.text]]

\* tsqFilter.apply: extractNodes(content)
tsqExtractNodes(cfg, language, content) ==
    IF Falsy(content) THEN EmptyExtraction
    ELSE LET q == TsqMatches(language, cfg.query, content)
         IN IF q.throws THEN EmptyExtraction
            ELSE LET nodes == FirstById(Flatten([i \in 1..Len(q.matches) |->
                                                    contentCaptures(q.matches[i], cfg.capture)]))
                     ctx == [i \in 1..Len(q.matches) |-> matchContext(q.matches[i], cfg.capture)]
                     kept == SelectSeq(ctx, LAMBDA c : c.has)
                 IN Extracted(JoinWith([i \in 1..Len(nodes) |-> nodes[i].node.text], "\n\n"),
                              << [i \in 1..Len(kept) |-> kept[i].entry] >>)

\* tsqFilter.apply(versions, config, filePath)
tsqFilter_apply(versions, cfg, filePath) ==
    LET ext == IF ~Falsy(cfg.language) THEN cfg.language
               ELSE IF ~Falsy(filePath) THEN extname(filePath) ELSE Null
    IN IF Falsy(ext) THEN WThrow(ErrTsqNoExt)
       ELSE IF getLanguageForExtension_throws(ext) THEN WThrow(ErrPathType)
       ELSE IF getLanguageForExtension(ext) = Null THEN WThrow(ErrTsqUnsupported)
       ELSE processFilter(versions,
                ExtOk(tsqExtractNodes(cfg, getLanguageForExtension(ext), versions.oldContent)),
                ExtOk(tsqExtractNodes(cfg, getLanguageForExtension(ext), versions.newContent)))

\* runAstGrep(args, input): resolves with stdout, or rejects
runAstGrep(cfg, input) ==
    LET proc == AstGrepProc(cfg.language, cfg.pattern, input)
    IN IF ~proc.spawned THEN [ok |-> FALSE, out |-> proc.stdout, err |-> ErrAstGrepMissing]
       ELSE IF proc.code = 0 \/ proc.code = 1 \/ proc.stdout.raw # ""
            THEN [ok |-> TRUE, out |-> proc.stdout, err |-> ""]
       ELSE [ok |-> FALSE, out |-> proc.stdout, err |-> ErrAstGrepExit]

\* extractMatchedText(jsonOutput)
extractMatchedText(jsonOutput) ==
    IF jsonOutput.raw = "" THEN EmptyExtraction
    ELSE IF jsonOutput.raw # "json" THEN EmptyExtraction
    ELSE LET matches == jsonOutput.matches
         IN Extracted(JoinWith([i \in 1..Len(matches) |-> matches[i].text], "\n\n"),
                      << [i \in 1..Len(matches) |-> matches[i].single] >>)

\* astGrepFilter.apply: extractNodes(content)
astGrepExtractNodes(cfg, content) ==
    IF Falsy(content) THEN ExtOk(EmptyExtraction)
    ELSE LET jsonOutput == runAstGrep(cfg, content)
         IN IF ~jsonOutput.ok THEN ExtThrow(jsonOutput.err)
            ELSE ExtOk(extractMatchedText(jsonOutput.out))

\* astGrepFilter.apply(versions, config)
astGrepFilter_apply(versions, cfg) ==
    IF Falsy(cfg.language) THEN WThrow(ErrAstGrepNoLang)
    ELSE processFilter(versions, astGrepExtractNodes(cfg, versions.oldContent),
                                 astGrepExtractNodes(cfg, versions.newContent))

\* applyWatch(watch, versions, filePath)
applyWatch(watch, versions, filePath) ==
    CASE watch.type = "ast-grep" -> astGrepFilter_apply(versions, watch)
      [] watch.type = "jq" -> jqFilter_apply(versions, watch)
      [] watch.type = "regex" -> regexFilter_apply(versions, watch)
      [] watch.type = "tsq" -> tsqFilter_apply(versions, watch, filePath)
      [] watch.type = "xpath" -> xpathFilter_apply(versions, watch)
      [] OTHER -> WThrow("Unsupported watch type")

-----------------------------------------------------------------------------
(* configuration/resolver.ts *)

RefKinds == {"signals", "watches", "reports"}
RefNames == {"s1", "s2", "w1", "w2", "r1", "missing", "constructor"}

\* "#defined/<kind>/<name>"
Ref(kind, name) == "#defined/" \o kind \o "/" \o name

ErrRefFormat(use) == "Invalid reference format: " \o use
ErrRefKind(expected, use) == "Expected a " \o expected \o " reference in " \o use
ErrNotFound(kind, name) == kind \o " " \o name \o " not found in defined"

\* the names at which obj?.[name] is not undefined: none when the block is
\* absent (the empty map), else the own properties and what every object
\* parsed from YAML inherits from Object.prototype
Properties(obj) == IF DOMAIN obj = {} THEN {} ELSE DOMAIN obj \cup {"constructor"}

\* obj[name] where it is not undefined: an own property, else an inherited one
GetProperty(obj, name) == IF name \in DOMAIN obj THEN obj[name] ELSE [inherited |-> name]

\* isUseReference(obj)
isUseReference(obj) == obj.use # Null

\* parseUseReference(use): {type, name}, or a throw
parseUseReference(use) ==
    IF \E k \in RefKinds, n \in RefNames : use = Ref(k, n)
    THEN LET kn == CHOOSE kn \in RefKinds \X RefNames : use = Ref(kn[1], kn[2])
         IN [ok |-> TRUE, type |-> kn[1], name |-> kn[2], err |-> ""]
    ELSE [ok |-> FALSE, type |-> "", name |-> "", err |-> ErrRefFormat(use)]

\* a resolution: the entry found, or a throw
Resolved(v) == [ok |-> TRUE, val |-> v, err |-> ""]
Unresolved(v, msg) == [ok |-> FALSE, val |-> v, err |-> msg]

\* resolveSignal(ref, defined)
resolveSignal(ref, defined) ==
    IF ~isUseReference(ref) THEN Resolved(ref)
    ELSE LET parsed == parseUseReference(ref.use)
         IN IF ~parsed.ok THEN Unresolved(ref, parsed.err)
            ELSE IF parsed.type # "signals" THEN Unresolved(ref, ErrRefKind("signal", ref.use))
            ELSE IF parsed.name \notin Properties(defined.signals)
                 THEN Unresolved(ref, ErrNotFound("Signal", parsed.name))
            ELSE Resolved(GetProperty(defined.signals, parsed.name))

\* resolveWatch that hands back a reference it cannot find instead of throwing
resolveWatch_lenient(ref, defined) ==
    IF ~isUseReference(ref) THEN Resolved(ref)
    ELSE LET parsed == parseUseReference(ref.use)
         IN IF parsed.ok /\ parsed.type = "watches" /\ parsed.name \in DOMAIN defined.watches
            THEN Resolved(defined.watches[parsed.name])
            ELSE Resolved(ref)

\* resolveWatch(ref, defined)
resolveWatch(ref, defined) ==
    IF ~isUseReference(ref) THEN Resolved(ref)
    ELSE LET parsed == parseUseReference(ref.use)
         IN IF ~parsed.ok THEN Unresolved(ref, parsed.err)
            ELSE IF parsed.type # "watches" THEN Unresolved(ref, ErrRefKind("watch", ref.use))
            ELSE IF parsed.name \notin Properties(defined.watches)
                 THEN Unresolved(ref, ErrNotFound("Watch", parsed.name))
            ELSE Resolved(GetProperty(defined.watches, parsed.name))

\* resolveReport(ref, defined)
resolveReport(ref, defined) ==
    IF ~isUseReference(ref) THEN Resolved(ref)
    ELSE LET parsed == parseUseReference(ref.use)
         IN IF ~parsed.ok THEN Unresolved(ref, parsed.err)
            ELSE IF parsed.type # "reports" THEN Unresolved(ref, ErrRefKind("report", ref.use))
            ELSE IF parsed.name \notin Properties(defined.reports)
                 THEN Unresolved(ref, ErrNotFound("Report", parsed.name))
            ELSE Resolved(GetProperty(defined.reports, parsed.name))

-----------------------------------------------------------------------------
(* reports/index.ts *)

\* a handlebars report: the template as its literal and {{variable}} parts
Report(template) == [use |-> Null, type |-> "handlebars", template |-> template]

\* an unclosed block: the template does not compile
BadPart == "{{#if"

\* the value a template part renders to
RenderPart(part, filterResult, context) ==
    CASE part = "{{filePath}}" -> context.filePath
      [] part = "{{diffText}}" -> filterResult.diffText
      [] part = "{{left.artifact}}" -> filterResult.left.artifact
      [] part = "{{right.artifact}}" -> filterResult.right.artifact
      [] OTHER -> part

\* executeHandlebarsReport(report, filterResult, context): a ReportOutput, or a throw
executeHandlebarsReport(report, filterResult, context) ==
    IF \E i \in 1..Len(report.template) : report.template[i] = BadPart
    THEN [ok |-> FALSE, err |-> ErrTemplate]
    ELSE LET content == JoinWith([i \in 1..Len(report.template) |->
                                     RenderPart(report.template[i], filterResult, context)], "")
         IN [ok |-> TRUE, err |-> "",
             out |-> [content |-> content,
                      metadata |-> [diffText |-> filterResult.diffText,
                                    fileName |-> context.filePath,
                                    message |-> content,
                                    lineRange |-> filterResult.lineRange,
                                    hasContext |-> filterResult.hasContext,
                                    context |-> filterResult.context],
                      notify |-> ""]]

\* executeReport(report, filterResult, context)
executeReport(report, filterResult, context) == executeHandlebarsReport(report, filterResult, context)

-----------------------------------------------------------------------------
(* processing/runner.ts, as functions *)

\* a File of the parsed diff
File(type, oldPath, newPath) == [type |-> type, oldPath |-> oldPath, newPath |-> newPath]

\* an inline signal, or {use: ...}
Signal(watch, report, notify) == [use |-> Null, watch |-> watch, report |-> report, notify |-> notify]
UseWatch(use) == [Watch("", <<>>, "", "", "", "") EXCEPT !.use = use]
UseReport(use) == [Report(<<>>) EXCEPT !.use = use]
UseSignal(use) == [Signal(UseWatch(Null), UseReport(Null), "") EXCEPT !.use = use]

Refs == [base |-> "BASE", head |-> "HEAD"]

\* context.contentProvider(ref, path)
contentProvider(ref, path) == store[ref][path]

\* minimatch's assertValidPattern(pattern): a pattern that is not a string is
\* a TypeError
assertValidPattern(pattern) == pattern # Null

\* patterns.some(...) reaches a pattern that is not a string before any
\* pattern has matched
matchesIncludeThrows(filePath, include) ==
    \E i \in 1..Len(include) :
        /\ ~assertValidPattern(include[i])
        /\ \A j \in 1..(i - 1) : ~minimatch(filePath, include[j])

\* matchesInclude that lets every path through
matchesInclude_everyPath(filePath, include) == TRUE

\* matchesInclude(filePath, include)
matchesInclude(filePath, include) == \E i \in 1..Len(include) : minimatch(filePath, include[i])

\* processSignal: const filePath = file.newPath || file.oldPath
effectivePath(file) == IF file.newPath # "" THEN file.newPath ELSE file.oldPath

\* getFileVersions that asks the provider for both sides whatever the change kind
getFileVersions_bothSides(file, refs) ==
    [versions |-> [oldContent |-> contentProvider(refs.base, file.oldPath),
                   newContent |-> contentProvider(refs.head, file.newPath)],
     calls |-> <<[ref |-> refs.base, path |-> file.oldPath], [ref |-> refs.head, path |-> file.newPath]>>]

\* getFileVersions(file, context): the versions and the provider calls made
getFileVersions(file, refs) ==
    [versions |-> [oldContent |-> IF file.type # "add" THEN contentProvider(refs.base, file.oldPath) ELSE Null,
                   newContent |-> IF file.type # "delete" THEN contentProvider(refs.head, file.newPath) ELSE Null],
     calls |-> (IF file.type # "add" THEN <<[ref |-> refs.base, path |-> file.oldPath]>> ELSE <<>>)
               \o (IF file.type # "delete" THEN <<[ref |-> refs.head, path |-> file.newPath]>> ELSE <<>>)]

\* outcomes of processSignal: no report, one report, or a throw
PSkip(why) == [status |-> "skip", why |-> why]
PReport(r) == [status |-> "report", report |-> r]
PThrow(msg) == [status |-> "throw", err |-> msg]

\* processSignal from the watch result on: resolve and execute the report
processSignalReport(signal, watchResult, filePath, defined) ==
    IF watchResult.status = "throw" THEN PThrow(watchResult.err)
    ELSE IF watchResult.status = "null" THEN PSkip("null")
    ELSE LET report == resolveReport(signal.report, defined)
         IN IF ~report.ok THEN PThrow(report.err)
            ELSE LET reportOutput == executeReport(report.val, watchResult.result, [filePath |-> filePath])
                 IN IF ~reportOutput.ok THEN PThrow(reportOutput.err)
                    ELSE PReport([reportOutput.out EXCEPT !.notify = signal.notify])

\* processSignal(options), every await taken in program order
processSignal(file, signalRef, defined) ==
    LET filePath == effectivePath(file)
        signal == resolveSignal(signalRef, defined)
    IN IF ~signal.ok THEN PThrow(signal.err)
       ELSE LET watch == resolveWatch(signal.val.watch, defined)
            IN IF ~watch.ok THEN PThrow(watch.err)
               ELSE IF matchesIncludeThrows(filePath, watch.val.include) THEN PThrow(ErrInvalidPattern)
                  ELSE IF ~matchesInclude(filePath, watch.val.include) THEN PSkip("include")
               ELSE processSignalReport(signal.val,
                        applyWatch(watch.val, getFileVersions(file, Refs).versions, filePath),
                        filePath, defined)

-----------------------------------------------------------------------------
(* configuration/loader.ts and the concerns object *)

\* ids a concern can be declared under: two canonical array indices and a name
ConcernIds == {"2", "1", "api"}

\* the integer a property key denotes when it is a canonical array index, else -1
ArrayIndex(key) ==
    CASE key = "1" -> 1
      [] key = "2" -> 2
      [] OTHER -> 0 - 1

\* Object.entries(obj) of an object given as its properties in insertion order:
\* array-index keys in ascending numeric order, then the other keys as inserted
ObjectEntries(obj) ==
    LET indices == SelectSeq(obj, LAMBDA e : ArrayIndex(e.key) >= 0)
        others == SelectSeq(obj, LAMBDA e : ArrayIndex(e.key) < 0)
    IN SortSeq(indices, LAMBDA a, b : ArrayIndex(a.key) < ArrayIndex(b.key)) \o others

NoDefined == [signals |-> <<>>, watches |-> <<>>, reports |-> <<>>]
NoConfig == [concerns |-> <<>>, defined |-> NoDefined]
NoYaml == [wellFormed |-> FALSE, concerns |-> <<>>, defined |-> NoDefined]

ErrYaml == "YAMLParseError"

\* loadConfig(path): parseYaml(content) as DistillConfig, properties inserted in
\* document order; nothing is validated
loadConfig(doc) ==
    IF ~doc.wellFormed THEN [ok |-> FALSE, config |-> NoConfig, err |-> ErrYaml]
    ELSE [ok |-> TRUE, config |-> [concerns |-> doc.concerns, defined |-> doc.defined], err |-> ""]

-----------------------------------------------------------------------------
(* processFiles, one step per await whose order can matter *)

NoWatch == Watch("", <<>>, "", "", "", "")
NoVersions == [oldContent |-> Null, newContent |-> Null]
NoCur ==
    [filePath |-> "", signal |-> Signal(NoWatch, Report(<<>>), ""), watch |-> NoWatch,
     versions |-> NoVersions, fetched |-> <<>>, pending |-> {}, settled |-> <<>>,
     result |-> [status |-> "pending"]]

Entries == ObjectEntries(config.concerns)
CurFile == files[fi]
CurEntry == Entries[ci]
CurSignalRef == CurEntry.value.signals[si]

\* the three nested for loops move on to the next (file, concern, signal)
Advance ==
    IF si < Len(CurEntry.value.signals)
    THEN si' = si + 1 /\ pc' = "signal" /\ UNCHANGED <<fi, ci>>
    ELSE IF ci < Len(Entries)
    THEN ci' = ci + 1 /\ si' = 1 /\ pc' = "signal" /\ UNCHANGED fi
    ELSE IF fi < Len(files)
    THEN fi' = fi + 1 /\ ci' = 1 /\ si' = 1 /\ pc' = "signal"
    ELSE pc' = "return" /\ UNCHANGED <<fi, ci, si>>

\* processSignal settles with outcome o: a throw rejects processFiles, anything
\* else is pushed onto reports and the loops go on
Complete(o, filePath) ==
    /\ trail' = Append(trail, [fi |-> fi, key |-> CurEntry.key, si |-> si, filePath |-> filePath,
                               status |-> IF o.status = "skip" THEN o.why ELSE o.status,
                               fetched |-> cur.fetched,
                               order |-> [i \in 1..Len(cur.settled) |-> cur.settled[i].idx]])
    /\ cur' = NoCur
    /\ IF o.status = "throw"
       THEN /\ outcome' = "threw" /\ thrown' = o.err /\ pc' = "done"
            /\ UNCHANGED <<fi, ci, si, reports>>
       ELSE /\ reports' = IF o.status = "report" THEN Append(reports, o.report) ELSE reports
            /\ UNCHANGED <<outcome, thrown>>
            /\ Advance

\* DiffCommand.run: const config = await loadConfig(configPath)
LoadConfig ==
    /\ mode = "run" /\ pc = "load"
    /\ LET loaded == loadConfig(yaml)
       IN IF ~loaded.ok
          THEN /\ outcome' = "threw" /\ thrown' = loaded.err /\ pc' = "done"
               /\ UNCHANGED <<config, fi, ci, si>>
          ELSE /\ config' = loaded.config
               /\ fi' = 1 /\ ci' = 1 /\ si' = 1
               /\ pc' = IF Len(files) = 0 \/ Len(loaded.config.concerns) = 0 THEN "return" ELSE "signal"
               /\ UNCHANGED <<outcome, thrown>>
    /\ UNCHANGED <<mode, env, yaml, files, store, reports, cur, calls, trail>>
    /\ UNCHANGED <<watchVars, resolveVars, diffVars, tempVars, grammarVars, checkVars, notifyVars>>

\* processSignal that fetches the file versions before it tests the include globs
ResolveAndGate_fetchesFirst ==
    /\ mode = "run" /\ pc = "signal"
    /\ LET filePath == effectivePath(CurFile)
           signal == resolveSignal(CurSignalRef, config.defined)
           watch == resolveWatch(signal.val.watch, config.defined)
           got == getFileVersions(CurFile, Refs)
       IN IF ~signal.ok THEN Complete(PThrow(signal.err), filePath) /\ calls' = calls
          ELSE IF ~watch.ok THEN Complete(PThrow(watch.err), filePath) /\ calls' = calls
          ELSE IF matchesIncludeThrows(filePath, watch.val.include)
               THEN Complete(PThrow(ErrInvalidPattern), filePath) /\ calls' = calls \o got.calls
          ELSE IF ~matchesInclude(filePath, watch.val.include)
               THEN Complete(PSkip("include"), filePath) /\ calls' = calls \o got.calls
          ELSE /\ cur' = [NoCur EXCEPT !.filePath = filePath, !.signal = signal.val, !.watch = watch.val,
                                       !.versions = got.versions, !.fetched = got.calls]
               /\ calls' = calls \o got.calls
               /\ pc' = "watch"
               /\ UNCHANGED <<fi, ci, si, reports, outcome, thrown, trail>>
    /\ UNCHANGED <<mode, env, yaml, config, files, store>>
    /\ UNCHANGED <<watchVars, resolveVars, diffVars, tempVars, grammarVars, checkVars, notifyVars>>

\* processSignal up to its first await: resolve the signal and the watch,
\* test the include globs
ResolveAndGate ==
    /\ mode = "run" /\ pc = "signal"
    /\ LET filePath == effectivePath(CurFile)
           signal == resolveSignal(CurSignalRef, config.defined)
           watch == resolveWatch(signal.val.watch, config.defined)
       IN IF ~signal.ok THEN Complete(PThrow(signal.err), filePath)
          ELSE IF ~watch.ok THEN Complete(PThrow(watch.err), filePath)
          ELSE IF matchesIncludeThrows(filePath, watch.val.include)
               THEN Complete(PThrow(ErrInvalidPattern), filePath)
          ELSE IF ~matchesInclude(filePath, watch.val.include) THEN Complete(PSkip("include"), filePath)
          ELSE /\ cur' = [NoCur EXCEPT !.filePath = filePath, !.signal = signal.val, !.watch = watch.val]
               /\ pc' = "versions"
               /\ UNCHANGED <<fi, ci, si, reports, outcome, thrown, trail>>
    /\ UNCHANGED <<mode, env, yaml, config, files, store, calls>>
    /\ UNCHANGED <<watchVars, resolveVars, diffVars, tempVars, grammarVars, checkVars, notifyVars>>

\* const versions = await getFileVersions(file, context)
GetFileVersions ==
    /\ mode = "run" /\ pc = "versions"
    /\ LET got == getFileVersions(CurFile, Refs)
       IN /\ cur' = [cur EXCEPT !.versions = got.versions, !.fetched = got.calls]
          /\ calls' = calls \o got.calls
    /\ pc' = "watch"
    /\ UNCHANGED <<mode, env, yaml, config, files, store, fi, ci, si, reports, outcome, thrown, trail>>
    /\ UNCHANGED <<watchVars, resolveVars, diffVars, tempVars, grammarVars, checkVars, notifyVars>>

\* applyWatch for the watches whose awaits are taken one after the other
ApplyWatchInOrder ==
    /\ mode = "run" /\ pc = "watch"
    /\ cur.watch.type # "ast-grep"
    /\ cur' = [cur EXCEPT !.result = applyWatch(cur.watch, cur.versions, cur.filePath)]
    /\ pc' = "report"
    /\ UNCHANGED <<mode, env, yaml, config, files, store, fi, ci, si, reports, outcome, thrown, calls, trail>>
    /\ UNCHANGED <<watchVars, resolveVars, diffVars, tempVars, grammarVars, checkVars, notifyVars>>

\* the content of one side: 1 is left (old), 2 is right (new)
SideContent(versions, idx) == IF idx = 1 THEN versions.oldContent ELSE versions.newContent

\* astGrepFilter.apply up to Promise.all: both extractors are called; a side
\* without content resolves at once, the other spawns ast-grep
AstGrepSpawn ==
    /\ mode = "run" /\ pc = "watch"
    /\ cur.watch.type = "ast-grep"
    /\ IF Falsy(cur.watch.language)
       THEN cur' = [cur EXCEPT !.result = WThrow(ErrAstGrepNoLang)] /\ pc' = "report"
       ELSE IF cur.versions.oldContent = Null /\ cur.versions.newContent = Null
       THEN cur' = [cur EXCEPT !.result = WNull] /\ pc' = "report"
       ELSE LET spawned == {idx \in {1, 2} : ~Falsy(SideContent(cur.versions, idx))}
                atOnce == SelectSeq(<<1, 2>>, LAMBDA idx : idx \notin spawned)
            IN /\ cur' = [cur EXCEPT !.pending = spawned,
                                     !.settled = [i \in 1..Len(atOnce) |->
                                                     [idx |-> atOnce[i], res |-> ExtOk(EmptyExtraction)]]]
               /\ pc' = IF spawned = {} THEN "merge" ELSE "children"
    /\ UNCHANGED <<mode, env, yaml, config, files, store, fi, ci, si, reports, outcome, thrown, calls, trail>>
    /\ UNCHANGED <<watchVars, resolveVars, diffVars, tempVars, grammarVars, checkVars, notifyVars>>

\* one ast-grep child closes (or fails to spawn); a rejection settles Promise.all
ChildClose(idx) ==
    /\ mode = "run" /\ pc = "children"
    /\ idx \in cur.pending
    /\ LET res == astGrepExtractNodes(cur.watch, SideContent(cur.versions, idx))
       IN IF ~res.ok
          THEN /\ cur' = [cur EXCEPT !.pending = @ \ {idx},
                                     !.settled = Append(@, [idx |-> idx, res |-> res]),
                                     !.result = WThrow(res.err)]
               /\ pc' = "report"
          ELSE /\ cur' = [cur EXCEPT !.pending = @ \ {idx},
                                     !.settled = Append(@, [idx |-> idx, res |-> res])]
               /\ pc' = IF cur.pending = {idx} THEN "merge" ELSE "children"
    /\ UNCHANGED <<mode, env, yaml, config, files, store, fi, ci, si, reports, outcome, thrown, calls, trail>>
    /\ UNCHANGED <<watchVars, resolveVars, diffVars, tempVars, grammarVars, checkVars, notifyVars>>

\* a Promise.all that hands the values over in the order they settled
PromiseAll_inSettlingOrder(settled) == [idx \in {1, 2} |-> settled[idx].res]

\* Promise.all([left, right]): the values by position, whatever order they settled in
PromiseAll(settled) ==
    [idx \in {1, 2} |-> settled[CHOOSE i \in 1..Len(settled) : settled[i].idx = idx].res]

\* processFilter after Promise.all: merge contexts, createFilterResult
MergeSides ==
    /\ mode = "run" /\ pc = "merge"
    /\ LET sides == PromiseAll(cur.settled)
       IN cur' = [cur EXCEPT !.result = processFilterMerge(sides[1].ext, sides[2].ext)]
    /\ pc' = "report"
    /\ UNCHANGED <<mode, env, yaml, config, files, store, fi, ci, si, reports, outcome, thrown, calls, trail>>
    /\ UNCHANGED <<watchVars, resolveVars, diffVars, tempVars, grammarVars, checkVars, notifyVars>>

\* processSignal after applyWatch: resolve and execute the report, return
ReportStep ==
    /\ mode = "run" /\ pc = "report"
    /\ Complete(processSignalReport(cur.signal, cur.result, cur.filePath, config.defined), cur.filePath)
    /\ UNCHANGED <<mode, env, yaml, config, files, store, calls>>
    /\ UNCHANGED <<watchVars, resolveVars, diffVars, tempVars, grammarVars, checkVars, notifyVars>>

\* return {reports}
Return ==
    /\ mode = "run" /\ pc = "return"
    /\ outcome' = "returned" /\ pc' = "done"
    /\ UNCHANGED <<mode, env, yaml, config, files, store, fi, ci, si, reports, thrown, cur, calls, trail>>
    /\ UNCHANGED <<watchVars, resolveVars, diffVars, tempVars, grammarVars, checkVars, notifyVars>>

-----------------------------------------------------------------------------
(* SpecWatch: applyWatch on every watch, pair of versions and file path *)

IncludeAll == <<"*.js", "*.json", "*.xml", "Makefile">>

Watches ==
    {Watch("jq", IncludeAll, q, "", "", "") : q \in JqQueries}
    \cup {Watch("regex", IncludeAll, p, f, "", "") : p \in RegexPatterns, f \in RegexFlags}
    \cup {Watch("xpath", IncludeAll, e, "", "", "") : e \in XPathExpressions}
    \cup {Watch("tsq", IncludeAll, q, "", l, c) : q \in TsqQueries, l \in TsqLanguages, c \in {"", "name"}}
    \cup {Watch("ast-grep", IncludeAll, p, "", l, "") : p \in AstGrepPatterns, l \in AstGrepLanguages}

AllInstalled == [jq |-> TRUE, astGrep |-> TRUE, diff |-> TRUE, grammars |-> TRUE]
\* everything installed, or exactly one tool missing
Envs ==
    {AllInstalled, [AllInstalled EXCEPT !.jq = FALSE], [AllInstalled EXCEPT !.astGrep = FALSE],
     [AllInstalled EXCEPT !.diff = FALSE], [AllInstalled EXCEPT !.grammars = FALSE]}

Pending == [status |-> "pending"]

ResolveIdle == rKind = "" /\ rRef = NoWatch /\ rDefined = NoDefined /\ rResult = Pending

\* resolveRefs returning null
NoRefs == [ok |-> FALSE, base |-> "", head |-> "", staged |-> FALSE]

DiffIdle == argv = <<>> /\ git = <<>> /\ resolved = NoRefs /\ out = Pending

TempIdle ==
    tLeft = "" /\ tRight = "" /\ tFault = "none" /\ tPc = "idle" /\ tFiles = {} /\ tResult = Pending

CheckIdle == concerns = <<>>

NotifyIdle ==
    nConfigs = <<>> /\ nFail = {} /\ nPc = "idle" /\ nCalls = <<>> /\ nWarnings = <<>> /\ nResult = "idle"

GrammarIdle ==
    /\ gExt = <<>> /\ gPc = <<>> /\ gRet = <<>>
    /\ treeSitterInitialized = FALSE /\ languageCache = {} /\ gLoads = <<>>

RunIdle ==
    /\ yaml = NoYaml /\ config = NoConfig /\ files = <<>> /\ store = <<>>
    /\ pc = "idle" /\ fi = 0 /\ ci = 0 /\ si = 0
    /\ reports = <<>> /\ outcome = "idle" /\ thrown = "" /\ cur = NoCur /\ calls = <<>> /\ trail = <<>>

InitWatch ==
    /\ mode = "watch"
    /\ wWatch \in Watches
    /\ wVersions \in [oldContent : MaybeContents, newContent : MaybeContents]
    /\ wFilePath \in {"a.js", "pkg.json", "Makefile", ""}
    /\ wResult = Pending
    /\ env \in Envs
    /\ RunIdle /\ ResolveIdle /\ DiffIdle /\ TempIdle /\ GrammarIdle /\ CheckIdle /\ NotifyIdle

\* one call of applyWatch
ApplyWatch ==
    /\ mode = "watch"
    /\ wResult = Pending
    /\ wResult' = applyWatch(wWatch, wVersions, wFilePath)
    /\ UNCHANGED <<mode, wWatch, wVersions, wFilePath, env>>
    /\ UNCHANGED <<runVars, resolveVars, diffVars, tempVars, grammarVars, checkVars, notifyVars>>

NextWatch == ApplyWatch

SpecWatch == InitWatch /\ [][NextWatch]_vars

-----------------------------------------------------------------------------
(* Claims about the watches *)

\* what the watch's extractor yields on one side: its text, or a throw
SideText(watch, filePath, content) ==
    CASE watch.type = "jq" -> IF Falsy(content) THEN Ok("") ELSE runJq(content, watch.query)
      [] watch.type = "regex" ->
            IF RegExpCompiles(watch.pattern, effectiveFlags(watch.flags))
            THEN Ok(extractMatches(watch, content).text) ELSE Throw(ErrRegExp)
      [] watch.type = "xpath" -> Ok(xpathExtractNodes(watch, content))
      [] watch.type = "tsq" ->
            LET ext == IF ~Falsy(watch.language) THEN watch.language ELSE extname(filePath)
            IN IF Falsy(ext) \/ getLanguageForExtension(ext) = Null THEN Throw(ErrTsqNoExt)
               ELSE Ok(tsqExtractNodes(watch, getLanguageForExtension(ext), content).text)
      [] OTHER ->
            IF Falsy(watch.language) THEN Throw(ErrAstGrepNoLang)
            ELSE LET e == astGrepExtractNodes(watch, content)
                 IN IF e.ok THEN Ok(e.ext.text) ELSE Throw(e.err)

ExtractorsAgree ==
    LET l == SideText(wWatch, wFilePath, wVersions.oldContent)
        r == SideText(wWatch, wFilePath, wVersions.newContent)
    IN l.ok /\ r.ok /\ l.val = r.val

\* C3: a watch whose extractor yields the same output on both sides returns
\* null, and every FilterResult has left.artifact different from right.artifact
C3_AbsenceOnEquality ==
    wResult # Pending =>
        /\ ExtractorsAgree => wResult = WNull
        /\ wResult.status = "result" => wResult.result.left.artifact # wResult.result.right.artifact

\* C3 witness: two different, present contents with the same non-empty
\* extraction, and the watch returned null
C3_Witness ==
    /\ wResult = WNull
    /\ ~Falsy(wVersions.oldContent) /\ ~Falsy(wVersions.newContent)
    /\ wVersions.oldContent # wVersions.newContent
    /\ ExtractorsAgree
    /\ SideText(wWatch, wFilePath, wVersions.oldContent).val # ""

\* C4: applying any watch to versions whose two sides are absent returns
\* null and raises nothing
C4_BothAbsentNoOp ==
    (wResult # Pending /\ wVersions.oldContent = Null /\ wVersions.newContent = Null)
        => wResult = WNull

\* C9: the only errors a watch raises are configuration contract violations
\* (missing language, unsupported extension); extractor failures are empty extractions
C9_ExtractorFailuresContained ==
    wResult.status = "throw" => wResult.err \in ContractErrors

-----------------------------------------------------------------------------
(* Spec: DiffCommand.run on a repository, a diff and a configuration *)

\* report templates, told apart by their first part
Template(label) == <<label, " ", "{{filePath}}", "\n", "{{diffText}}">>

\* the defined block of every document
Defined ==
    [signals |-> [n \in {"s1", "s2"} |->
                     IF n = "s1"
                     THEN Signal(UseWatch(Ref("watches", "w1")), UseReport(Ref("reports", "r1")), "@team")
                     ELSE Signal(UseWatch(Ref("watches", "missing")), UseReport(Ref("reports", "r1")), "")],
     watches |-> [n \in {"w1", "w2"} |->
                     IF n = "w1"
                     THEN Watch("regex", <<"*.json">>, SemverPattern, "", "", "")
                     ELSE Watch("jq", <<Null>>, ".version", "", "", "")],
     reports |-> [n \in {"r1"} |-> Report(Template("r1"))]]

SigRegex == Signal(Watch("regex", <<"*.js">>, "foo", "", "", ""), Report(Template("regex")), "")
SigAstGrep ==
    Signal(Watch("ast-grep", <<"*.js">>, "function $NAME() {}", "", "javascript", ""),
           Report(Template("ast-grep")), "")
SigJq == Signal(Watch("jq", <<"*.json", "*.js">>, ".version", "", "", ""), Report(<<BadPart>>), "")
SigUse == UseSignal(Ref("signals", "s1"))
SigDangling == Signal(UseWatch(Ref("watches", "missing")), Report(Template("dangling")), "")

\* a reference to the defined signal s2, whose watch reference names nothing
SigUseDangling == UseSignal(Ref("signals", "s2"))

\* a signal whose report reference names nothing; its watch is SigRegex's
SigNoReport == Signal(Watch("regex", <<"*.js">>, "foo", "", "", ""), UseReport(Ref("reports", "missing")), "")

\* a signal whose watch is a reference to the defined watch w2, which has no
\* include, with an include written next to the reference
SigUseInclude ==
    Signal([UseWatch(Ref("watches", "w2")) EXCEPT !.include = <<"pkg.json">>], Report(Template("use")), "")

RunSignals ==
    {SigRegex, SigAstGrep, SigJq, SigUse, SigDangling, SigUseDangling, SigNoReport, SigUseInclude}

\* the non-empty sequences over S of length at most n
SeqsUpTo(S, n) == UNION {[1..k -> S] : k \in 1..n}

Concern(id, signals) == [key |-> id, value |-> [signals |-> signals]]

\* documents declaring one or two concerns with at most MaxSignals signals in all
Docs ==
    {[wellFormed |-> TRUE, concerns |-> <<Concern(id, sigs)>>, defined |-> Defined] :
        id \in ConcernIds, sigs \in SeqsUpTo(RunSignals, MaxSignals)}
    \cup
    {[wellFormed |-> TRUE, concerns |-> <<Concern(ids[1], sigs[1]), Concern(ids[2], sigs[2])>>,
      defined |-> Defined] :
        ids \in {p \in ConcernIds \X ConcernIds : p[1] # p[2]},
        sigs \in {q \in SeqsUpTo(RunSignals, MaxSignals - 1) \X SeqsUpTo(RunSignals, MaxSignals - 1) :
                     Len(q[1]) + Len(q[2]) <= MaxSignals}}

\* what gitdiff-parser yields for a modified, a deleted and an added file
\* ("--- a/b.js", "+++ /dev/null" gives newPath "/dev/null"), and a deleted
\* file as a caller of processFiles may build it, without a new path
RunFiles ==
    {File("modify", "a.js", "a.js"), File("delete", "b.js", DevNull), File("add", DevNull, "pkg.json"),
     File("delete", "b.js", "")}

\* diffs of at most MaxFiles files, no file twice
Diffs == {d \in SeqsUpTo(RunFiles, MaxFiles) : \A i, j \in 1..Len(d) : i # j => d[i] # d[j]}

\* the two revisions of a repository behind the content provider: one where
\* a.js changes its function, one where a.js changes nothing a watch extracts
\* and git show fails for b.js
Repositories ==
    {[ref \in {"BASE", "HEAD"} |->
        [path \in Paths |->
            CASE ref = "BASE" /\ path \in {"a.js", "b.js"} -> JsFoo
              [] ref = "HEAD" /\ path = "a.js" -> JsBar
              [] ref = "HEAD" /\ path = "pkg.json" -> JsonV1
              [] OTHER -> Null]],
     [ref \in {"BASE", "HEAD"} |->
        [path \in Paths |->
            CASE path = "a.js" -> JsFoo
              [] ref = "HEAD" /\ path = "pkg.json" -> JsonV2
              [] OTHER -> Null]]}

Init ==
    /\ mode = "run"
    /\ wWatch = NoWatch /\ wVersions = NoVersions /\ wFilePath = "" /\ wResult = Pending
    /\ ResolveIdle /\ DiffIdle /\ TempIdle /\ GrammarIdle /\ CheckIdle /\ NotifyIdle
    /\ env \in {AllInstalled, [AllInstalled EXCEPT !.astGrep = FALSE]}
    /\ yaml \in Docs \cup {NoYaml}
    /\ config = NoConfig
    /\ files \in Diffs
    /\ store \in Repositories
    /\ pc = "load" /\ fi = 0 /\ ci = 0 /\ si = 0
    /\ reports = <<>> /\ outcome = "running" /\ thrown = "" /\ cur = NoCur
    /\ calls = <<>> /\ trail = <<>>

Next ==
    \/ LoadConfig
    \/ ResolveAndGate
    \/ GetFileVersions
    \/ ApplyWatchInOrder
    \/ AstGrepSpawn
    \/ \E idx \in {1, 2} : ChildClose(idx)
    \/ MergeSides
    \/ ReportStep
    \/ Return

Spec == Init /\ [][Next]_vars

-----------------------------------------------------------------------------
(* The run with every await taken in program order *)

\* the (file, concern entry, signal) triples in the order of the three loops
Pairs ==
    Flatten([f \in 1..Len(files) |->
        Flatten([c \in 1..Len(Entries) |->
            [sg \in 1..Len(Entries[c].value.signals) |-> <<f, c, sg>>]])])

RECURSIVE RunInOrder(_, _)
\* processFiles over the remaining pairs, acc being the reports pushed so far
RunInOrder(pairs, acc) ==
    IF pairs = <<>> THEN [threw |-> FALSE, reports |-> acc, err |-> ""]
    ELSE LET t == pairs[1]
             o == processSignal(files[t[1]], Entries[t[2]].value.signals[t[3]], config.defined)
         IN IF o.status = "throw" THEN [threw |-> TRUE, reports |-> acc, err |-> o.err]
            ELSE RunInOrder(Tail(pairs), IF o.status = "report" THEN Append(acc, o.report) ELSE acc)

-----------------------------------------------------------------------------
(* Claims about the runner *)

\* processFiles has been called
Started == mode = "run" /\ pc \notin {"load", "idle"} /\ ~(outcome = "threw" /\ thrown = ErrYaml)

\* the position at which a concern id is declared in the configuration
DeclaredAt(key) == CHOOSE c \in 1..Len(config.concerns) : config.concerns[c].key = key

\* the signal reference declared at a position of a concern
DeclaredSignal(key, sg) == config.concerns[DeclaredAt(key)].value.signals[sg]

\* the failures of a pair at run time: an extractor or subprocess that throws,
\* a template that does not compile
RuntimeFailures == {ErrAstGrepMissing, ErrAstGrepExit, ErrJqExit, ErrSpawn, ErrRegExp, ErrRegExpFlags, ErrTemplate}

\* C1: a (file, signal) pair failing at run time does not abort processFiles:
\* unless a configuration error ends the run, it returns, with the report of
\* every pair that does not fail and whose watch detects a change
C1_FailureIsLocal ==
    (Started /\ pc = "done" /\ (outcome = "threw" => thrown \in RuntimeFailures)) =>
        /\ outcome = "returned"
        /\ \A i \in 1..Len(Pairs) :
              LET t == Pairs[i]
                  o == processSignal(files[t[1]], Entries[t[2]].value.signals[t[3]], config.defined)
              IN o.status = "report" => \E r \in 1..Len(reports) : reports[r] = o.report

\* the finished pairs that produced a report, in the order of their reports
Emitted == SelectSeq(trail, LAMBDA e : e.status = "report")

\* lexicographic order on (file, declared concern, declared signal)
Before(a, b) ==
    \/ a.fi < b.fi
    \/ a.fi = b.fi /\ DeclaredAt(a.key) < DeclaredAt(b.key)
    \/ a.fi = b.fi /\ a.key = b.key /\ a.si < b.si

\* C2: reports are in traversal order: files in diff order, concerns in
\* declared order whatever their ids, signals in declared order
C2_TraversalOrder ==
    Started => \A i, j \in 1..Len(Emitted) : i < j => Before(Emitted[i], Emitted[j])

\* the watch a finished pair was run with
WatchOf(e) ==
    LET ref == DeclaredSignal(e.key, e.si)
        signal == IF ref.use = Null THEN ref
                  ELSE config.defined.signals[CHOOSE n \in DOMAIN config.defined.signals :
                                                  ref.use = Ref("signals", n)]
    IN IF signal.watch.use = Null THEN signal.watch
       ELSE config.defined.watches[CHOOSE n \in DOMAIN config.defined.watches :
                                       signal.watch.use = Ref("watches", n)]

\* C5: every report comes from a pair whose effective path matches an
\* include glob of the signal's watch
C5_GlobGating ==
    Started => \A i \in 1..Len(trail) :
        trail[i].status = "report" =>
            \E g \in 1..Len(WatchOf(trail[i]).include) :
                minimatch(trail[i].filePath, WatchOf(trail[i]).include[g])

\* C5 witness: a run returned in which one pair was turned away by the include
\* globs and another produced a report
C5_Witness ==
    /\ outcome = "returned"
    /\ \E i, j \in 1..Len(trail) : trail[i].status = "include" /\ trail[j].status = "report"

\* C6: the effective path is the new path, except for a deleted file, where
\* it is the old path
C6_EffectivePath ==
    \A i \in 1..Len(trail) :
        trail[i].filePath = IF files[trail[i].fi].type = "delete"
                            THEN files[trail[i].fi].oldPath ELSE files[trail[i].fi].newPath

\* C7: past the include gate, old content is requested at (refs.base, old
\* path) exactly when the kind is not add, new content at (refs.head, new
\* path) exactly when it is not delete; an unrequested or absent side is null
\* and nothing is raised
C7_Materialize ==
    pc \in {"watch", "children", "merge", "report"} =>
        /\ cur.fetched = (IF CurFile.type = "add" THEN <<>> ELSE <<[ref |-> "BASE", path |-> CurFile.oldPath]>>)
                         \o (IF CurFile.type = "delete" THEN <<>> ELSE <<[ref |-> "HEAD", path |-> CurFile.newPath]>>)
        /\ cur.versions.oldContent = (IF CurFile.type = "add" THEN Null ELSE store["BASE"][CurFile.oldPath])
        /\ cur.versions.newContent = (IF CurFile.type = "delete" THEN Null ELSE store["HEAD"][CurFile.newPath])
        /\ outcome = "running"

\* C7 witness: a deleted file past the gate with only its old side requested,
\* and that side absent in the repository
C7_Witness ==
    /\ pc = "watch" /\ CurFile.type = "delete"
    /\ Len(cur.fetched) = 1 /\ cur.versions.oldContent = Null /\ cur.versions.newContent = Null

\* C8: whatever order the asynchronous steps settle in, the run ends as the
\* run in program order does: same reports, or a throw where that one throws
C8_OrderIndependent ==
    Started =>
        /\ outcome = "returned" =>
              /\ ~RunInOrder(Pairs, <<>>).threw
              /\ reports = RunInOrder(Pairs, <<>>).reports
        /\ outcome = "threw" => RunInOrder(Pairs, <<>>).threw

\* C8 witness: a run returned a report of a pair whose right extraction
\* settled before its left extraction
C8_Witness ==
    /\ outcome = "returned"
    /\ \E i \in 1..Len(trail) : trail[i].status = "report" /\ trail[i].order = <<2, 1>>

\* a use string names an entry of the defined block under the given kind
Resolves(use, kind, defined) == \E n \in DOMAIN defined[kind] : use = Ref(kind, n)

\* some signal of the configuration has a signal or watch reference that
\* names nothing
HasDanglingWatch(cfg) ==
    \E c \in 1..Len(cfg.concerns) : \E sg \in 1..Len(cfg.concerns[c].value.signals) :
        LET ref == cfg.concerns[c].value.signals[sg]
            signal == IF ref.use = Null \/ ~Resolves(ref.use, "signals", cfg.defined) THEN ref
                      ELSE cfg.defined.signals[CHOOSE n \in DOMAIN cfg.defined.signals :
                                                   ref.use = Ref("signals", n)]
        IN \/ ref.use # Null /\ ~Resolves(ref.use, "signals", cfg.defined)
           \/ signal.use = Null /\ signal.watch.use # Null
                /\ ~Resolves(signal.watch.use, "watches", cfg.defined)

SignalIdsOf(e) ==
    {e.key} \cup {n \in RefNames : DeclaredSignal(e.key, e.si).use = Ref("signals", n)}

\* the errors of the resolver
ResolutionErrors ==
    {ErrNotFound(k, n) : k \in {"Signal", "Watch", "Report"}, n \in RefNames}
    \cup {ErrRefKind(x, Ref(k, n)) : x \in {"signal", "watch", "report"}, k \in RefKinds, n \in RefNames}

\* the resolver errors whose message contains the given id
ErrorsNaming(id) ==
    {ErrNotFound(k, id) : k \in {"Signal", "Watch", "Report"}}
    \cup {ErrRefKind(x, Ref(k, id)) : x \in {"signal", "watch", "report"}, k \in RefKinds}

\* C11: a resolution error that ends a run names the signal being processed
\* (its concern's id or its own name) in the error the caller receives
C11_ResolutionErrorNamesSignal ==
    (Started /\ outcome = "threw" /\ thrown \in ResolutionErrors) =>
        \E id \in SignalIdsOf(trail[Len(trail)]) : thrown \in ErrorsNaming(id)

\* the signal of a finished pair has a report reference that does not resolve
ReportUnresolved(e) ==
    LET signal == resolveSignal(DeclaredSignal(e.key, e.si), config.defined)
    IN signal.ok /\ ~resolveReport(signal.val.report, config.defined).ok

\* C26: processing a signal whose report reference does not resolve fails
\* against any file, including a file that does not match the include glob and
\* a file for which the watch detects no change
C26_DanglingReportFailsOnAnyFile ==
    \A i \in 1..Len(trail) : ReportUnresolved(trail[i]) => trail[i].status = "throw"

\* the watch written on the signal of a finished pair, before resolveWatch
WrittenWatch(e) == resolveSignal(DeclaredSignal(e.key, e.si), config.defined).val.watch

\* the signal of a finished pair has a watch that is a reference to a defined
\* watch and also carries an include of its own
UseWithInclude(e) ==
    /\ resolveSignal(DeclaredSignal(e.key, e.si), config.defined).ok
    /\ isUseReference(WrittenWatch(e)) /\ WrittenWatch(e).include # <<>>
    /\ resolveWatch(WrittenWatch(e), config.defined).ok

\* how the pair ends when the gate is the include written on the signal's
\* watch and the extraction is that of the referenced watch
EndWithWrittenInclude(e) ==
    IF ~matchesInclude(e.filePath, WrittenWatch(e).include) THEN "include"
    ELSE applyWatch(resolveWatch(WrittenWatch(e), config.defined).val,
                    getFileVersions(files[e.fi], Refs).versions, e.filePath).status

\* C28: when a signal's watch is a reference that also carries its own include
\* and the defined watch has none, the include gate uses the include written
\* on the signal's watch and the extraction parameters are those of the
\* defined watch: the pair is skipped exactly when the path fails the written
\* include, and otherwise ends as the defined watch's extraction decides
C28_WrittenIncludeGatesReference ==
    \A i \in 1..Len(trail) :
        UseWithInclude(trail[i]) =>
            trail[i].status = (IF EndWithWrittenInclude(trail[i]) = "result" THEN "report"
                               ELSE EndWithWrittenInclude(trail[i]))

\* the watch the signal of a finished pair resolves to, or a failed resolution
ResolvedWatch(e) ==
    LET signal == resolveSignal(DeclaredSignal(e.key, e.si), config.defined)
    IN IF ~signal.ok THEN signal ELSE resolveWatch(signal.val.watch, config.defined)

\* the effective path of a finished pair fails the include gate
FailsGate(e) == ResolvedWatch(e).ok /\ ~matchesInclude(e.filePath, ResolvedWatch(e).val.include)

\* the provider calls of the first n finished pairs, in order
RECURSIVE FetchedUpTo(_)
FetchedUpTo(n) == IF n = 0 THEN <<>> ELSE FetchedUpTo(n - 1) \o trail[n].fetched

\* among the calls there is at most one for the old side and one for the new
AtMostOncePerSide(fetched) ==
    \A r \in {Refs.base, Refs.head} : Cardinality({k \in 1..Len(fetched) : fetched[k].ref = r}) <= 1

\* C29: content is fetched lazily: every call of the content provider is made
\* for a pair past its include gate, no call is made for a pair whose effective
\* path fails the gate, and a pair makes at most one call for the old side and
\* at most one for the new side
C29_LazyFetch ==
    Started =>
        /\ calls = FetchedUpTo(Len(trail)) \o cur.fetched
        /\ AtMostOncePerSide(cur.fetched)
        /\ \A i \in 1..Len(trail) :
              /\ FailsGate(trail[i]) => trail[i].fetched = <<>>
              /\ AtMostOncePerSide(trail[i].fetched)

\* C29 witness: a run returned in which one pair failed the gate without a
\* call and another passed it with one call for each side
C29_Witness ==
    /\ outcome = "returned"
    /\ \E i, j \in 1..Len(trail) :
          /\ FailsGate(trail[i]) /\ trail[i].fetched = <<>>
          /\ ~FailsGate(trail[j]) /\ Len(trail[j].fetched) = 2
          /\ trail[j].fetched[1].ref = Refs.base /\ trail[j].fetched[2].ref = Refs.head

-----------------------------------------------------------------------------
(* SpecResolve: the three resolvers on every reference and defined block *)

\* use strings: every well-formed reference, a kind that does not exist, a
\* bare name and a reference without a name
UseStrings ==
    {Ref(k, n) : k \in RefKinds, n \in RefNames} \cup {"#defined/filters/w1", "w1", "#defined/watches/"}

\* an inline entry or a use reference, of the shape the resolver expects
RefsOf(kind) ==
    CASE kind = "signals" -> {SigRegex} \cup {UseSignal(u) : u \in UseStrings}
      [] kind = "watches" -> {SigRegex.watch} \cup {UseWatch(u) : u \in UseStrings}
      [] OTHER -> {SigRegex.report} \cup {UseReport(u) : u \in UseStrings}

InitResolve ==
    /\ mode = "resolve"
    /\ rKind \in RefKinds
    /\ rRef \in RefsOf(rKind)
    /\ rDefined \in {Defined, NoDefined}
    /\ rResult = Pending
    /\ wWatch = NoWatch /\ wVersions = NoVersions /\ wFilePath = "" /\ wResult = Pending
    /\ env = AllInstalled
    /\ RunIdle /\ DiffIdle /\ TempIdle /\ GrammarIdle /\ CheckIdle /\ NotifyIdle

\* one call of resolveSignal, resolveWatch or resolveReport
Resolve ==
    /\ mode = "resolve"
    /\ rResult = Pending
    /\ rResult' = CASE rKind = "signals" -> resolveSignal(rRef, rDefined)
                    [] rKind = "watches" -> resolveWatch(rRef, rDefined)
                    [] OTHER -> resolveReport(rRef, rDefined)
    /\ UNCHANGED <<mode, env, rKind, rRef, rDefined>>
    /\ UNCHANGED <<watchVars, runVars, diffVars, tempVars, grammarVars, checkVars, notifyVars>>

SpecResolve == InitResolve /\ [][Resolve]_vars

\* the word a resolver uses for its kind in the kind-mismatch error, and in
\* the not-found error
KindWord(kind) == CASE kind = "signals" -> "signal" [] kind = "watches" -> "watch" [] OTHER -> "report"
KindTitle(kind) == CASE kind = "signals" -> "Signal" [] kind = "watches" -> "Watch" [] OTHER -> "Report"

\* C12: resolving a use reference returns the defined entry of the expected
\* kind with that name; otherwise it fails with the format error when the
\* string is not #defined/<kind>/<name>, with the kind error when the kind is
\* not the expected one, with the not-found error when no such entry is defined
C12_ResolveOrThreeErrors ==
    (rResult # Pending /\ rRef.use # Null) =>
        /\ (~\E k \in RefKinds, n \in RefNames : rRef.use = Ref(k, n)) =>
              ~rResult.ok /\ rResult.err = ErrRefFormat(rRef.use)
        /\ \A k \in RefKinds, n \in RefNames :
              rRef.use = Ref(k, n) =>
                 IF k # rKind THEN ~rResult.ok /\ rResult.err = ErrRefKind(KindWord(rKind), rRef.use)
                 ELSE IF n \notin DOMAIN rDefined[k]
                      THEN ~rResult.ok /\ rResult.err = ErrNotFound(KindTitle(k), n)
                      ELSE rResult.ok /\ rResult.val = rDefined[k][n]

-----------------------------------------------------------------------------
(* SpecDiff: DiffCommand.run on a command line and a repository state *)

TrackedPaths == {"a.js", "b.js"}

\* the tree of a commit, of the index or of the working directory
Trees == [TrackedPaths -> {JsFoo, JsBar}]

\* getWorkingTreeStatus(cwd): git diff --cached --quiet, git diff --quiet
getWorkingTreeStatus(g) ==
    [hasStaged |-> g.index # g.HEAD,
     hasUnstaged |-> g.worktree # g.index,
     isClean |-> g.index = g.HEAD /\ g.worktree = g.index]

\* isValidRef(ref, cwd): git rev-parse --verify <ref>^{commit}
isValidRef(ref) == ref \notin {".", ""} /\ ref \in {"HEAD", "main"}

\* resolveRefs(baseArg, headArg, repoPath, stagedFlag); diffOptions {} is staged FALSE
resolveRefs(baseArg, headArg, stagedFlag, g) ==
    LET status == getWorkingTreeStatus(g)
        pathArg == IF baseArg # "" /\ ~isValidRef(baseArg) THEN baseArg ELSE "."
    IN IF baseArg # "" /\ headArg # ""
       THEN [ok |-> TRUE, base |-> baseArg, head |-> headArg, staged |-> stagedFlag]
       ELSE IF baseArg # "" /\ isValidRef(baseArg)
       THEN [ok |-> TRUE, base |-> "HEAD", head |-> baseArg, staged |-> FALSE]
       ELSE IF status.isClean THEN NoRefs
       ELSE IF status.hasStaged /\ stagedFlag
       THEN [ok |-> TRUE, base |-> "HEAD", head |-> pathArg, staged |-> TRUE]
       ELSE IF status.hasStaged /\ ~status.hasUnstaged THEN NoRefs
       ELSE [ok |-> TRUE, base |-> "HEAD", head |-> pathArg, staged |-> FALSE]

\* getGitDiff(base, head, cwd, options): the paths of the diff's sections.
\* git diff --staged <base> compares the index, git diff <base> <ref> the
\* ref's tree, git diff <base> <path> the working tree under the path
getGitDiff(base, head, staged, g) ==
    LET right == IF staged /\ head \in {".", ""} THEN g.index
                 ELSE IF isValidRef(head) THEN g[head] ELSE g.worktree
        scope == IF (staged /\ head \in {".", ""}) \/ isValidRef(head) \/ head = "."
                 THEN TrackedPaths ELSE {head}
    IN SelectSeq(<<"a.js", "b.js">>, LAMBDA p : p \in scope /\ g[base][p] # right[p])

\* parseDiff(diffText).files
parseDiff(diff) == [i \in 1..Len(diff) |-> File("modify", diff[i], diff[i])]

\* git show <ref>:<path>, null when git fails
gitShow(ref, path, g) == IF isValidRef(ref) /\ path \in TrackedPaths THEN g[ref][path] ELSE Null

\* getFileAtRef(ref, path, cwd)
getFileAtRef(ref, path, g) ==
    IF ref = "." \/ ref = ""
    THEN IF path \in TrackedPaths THEN g.worktree[path] ELSE Null
    ELSE gitShow(ref, path, g)

\* outputReports({reports}): the sort by urgency leaves the order (no report of
\* executeReport has an urgency, the comparator yields NaN)
outputReports(result, json) ==
    IF json THEN [concerns |-> <<>>, reports |-> [i \in 1..Len(result) |-> result[i].metadata]]
    ELSE [log |-> [i \in 1..Len(result) |-> result[i].content]]

\* command lines: nothing, one ref, one path, two arguments
Argvs ==
    {a \in [base : {"", "HEAD", "main", "a.js"}, head : {"", ".", "main"}, staged : BOOLEAN, json : BOOLEAN] :
        a.base \in {"", "a.js"} => a.head = ""}

InitDiff ==
    /\ mode = "diff"
    /\ argv \in Argvs
    /\ git \in {g \in [HEAD : Trees, main : Trees, index : Trees, worktree : Trees] :
                   /\ g.HEAD = [p \in TrackedPaths |-> JsFoo]
                   /\ g.main = [p \in TrackedPaths |-> IF p = "a.js" THEN JsBar ELSE JsFoo]}
    /\ resolved = NoRefs /\ out = Pending
    /\ wWatch = NoWatch /\ wVersions = NoVersions /\ wFilePath = "" /\ wResult = Pending
    /\ ResolveIdle /\ TempIdle /\ GrammarIdle /\ CheckIdle /\ NotifyIdle
    /\ env = AllInstalled
    /\ yaml \in {[wellFormed |-> TRUE, concerns |-> <<Concern("api", <<sg>>)>>, defined |-> Defined] :
                    sg \in {SigRegex, SigAstGrep}}
    /\ config = NoConfig /\ files = <<>> /\ store = <<>>
    /\ pc = "refs" /\ fi = 0 /\ ci = 0 /\ si = 0
    /\ reports = <<>> /\ outcome = "running" /\ thrown = "" /\ cur = NoCur /\ calls = <<>> /\ trail = <<>>

\* run: resolveRefs, and the graceful exit when it returns null
ResolveRefs ==
    /\ mode = "diff" /\ pc = "refs"
    /\ resolved' = resolveRefs(argv.base, argv.head, argv.staged, git)
    /\ IF resolved'.ok THEN pc' = "config" /\ out' = out
       ELSE pc' = "done" /\ out' = IF argv.json THEN [reports |-> <<>>] ELSE [log |-> <<>>]
    /\ UNCHANGED <<mode, env, argv, git, yaml, config, files, store, fi, ci, si, reports, outcome, thrown,
                   cur, calls, trail>>
    /\ UNCHANGED <<watchVars, resolveVars, tempVars, grammarVars, checkVars, notifyVars>>

\* run: loadConfig, getGitDiff, parseDiff, and the exits on an empty diff;
\* the content provider built for processFiles answers with git show
GetGitDiff ==
    /\ mode = "diff" /\ pc = "config"
    /\ LET loaded == loadConfig(yaml)
           diff == getGitDiff(resolved.base, resolved.head, resolved.staged, git)
       IN /\ config' = loaded.config
          /\ IF Len(diff) = 0 \/ Len(parseDiff(diff)) = 0
             THEN /\ pc' = "done"
                  /\ out' = IF argv.json THEN [reports |-> <<>>] ELSE [log |-> <<"No changes">>]
                  /\ UNCHANGED <<files, store>>
             ELSE /\ pc' = "process"
                  /\ files' = parseDiff(diff)
                  /\ store' = [r \in {Refs.base, Refs.head} |->
                                  [p \in Paths |->
                                      gitShow(IF r = Refs.base THEN resolved.base ELSE resolved.head, p, git)]]
                  /\ out' = out
    /\ UNCHANGED <<mode, env, argv, git, resolved, yaml, fi, ci, si, reports, outcome, thrown, cur, calls, trail>>
    /\ UNCHANGED <<watchVars, resolveVars, tempVars, grammarVars, checkVars, notifyVars>>

\* run: await processFiles(files, config, {contentProvider, refs})
ProcessFiles ==
    /\ mode = "diff" /\ pc = "process"
    /\ LET result == RunInOrder(Pairs, <<>>)
       IN IF result.threw
          THEN outcome' = "threw" /\ thrown' = result.err /\ pc' = "done" /\ reports' = reports
          ELSE outcome' = "returned" /\ thrown' = thrown /\ pc' = "output" /\ reports' = result.reports
    /\ UNCHANGED <<mode, env, argv, git, resolved, out, yaml, config, files, store, fi, ci, si, cur, calls, trail>>
    /\ UNCHANGED <<watchVars, resolveVars, tempVars, grammarVars, checkVars, notifyVars>>

\* run: return this.outputReports(result)
OutputReports ==
    /\ mode = "diff" /\ pc = "output"
    /\ out' = outputReports(reports, argv.json)
    /\ pc' = "done"
    /\ UNCHANGED <<mode, env, argv, git, resolved, yaml, config, files, store, fi, ci, si, reports, outcome,
                   thrown, cur, calls, trail>>
    /\ UNCHANGED <<watchVars, resolveVars, tempVars, grammarVars, checkVars, notifyVars>>

NextDiff == ResolveRefs \/ GetGitDiff \/ ProcessFiles \/ OutputReports

SpecDiff == InitDiff /\ [][NextDiff]_vars

\* C13: the filesystem-backed provider answers revision "." or "" with the
\* working-tree content, and when the command compares HEAD against the
\* working directory the new content handed to the watches is the
\* working-tree content of each file of the diff
C13_WorkingTreeContent ==
    mode = "diff" =>
        /\ \A p \in TrackedPaths :
              getFileAtRef(".", p, git) = git.worktree[p] /\ getFileAtRef("", p, git) = git.worktree[p]
        /\ (pc \in {"process", "output", "done"} /\ resolved.ok /\ ~resolved.staged
              /\ resolved.base = "HEAD" /\ resolved.head = ".") =>
                 \A i \in 1..Len(files) :
                    getFileVersions(files[i], Refs).versions.newContent = git.worktree[files[i].newPath]

\* C14: with --staged and a comparison against the working directory, the
\* diff that is processed is the diff between the base and the index
C14_StagedOnly ==
    (mode = "diff" /\ argv.staged /\ resolved.ok /\ ~isValidRef(resolved.head)
        /\ pc \in {"process", "output", "done"}) =>
           files = parseDiff(SelectSeq(<<"a.js", "b.js">>,
                                       LAMBDA p : git[resolved.base][p] # git.index[p]))

\* C15: with --json, a run that finds nothing to analyse outputs an object
\* whose concerns is {} and whose reports is the empty array
C15_EmptyJsonOutput ==
    (mode = "diff" /\ argv.json /\ pc = "done" /\ (~resolved.ok \/ files = <<>>)) =>
        /\ "concerns" \in DOMAIN out /\ out.concerns = <<>>
        /\ "reports" \in DOMAIN out /\ out.reports = <<>>

-----------------------------------------------------------------------------
(* Claims about line ranges, contexts, flags and languages of the watches *)

\* the first hunk header of a FilterResult's diff text, when it has one
HunkOf(r) ==
    IF r.diffText = "" THEN [present |-> FALSE, newStart |-> 0, hasNewLines |-> FALSE, newLines |-> 0]
    ELSE DiffU(r.left.artifact, r.right.artifact).hunk

\* lineRange is the new side of the first hunk header, and omitted without one
RangeIsNewSide(r) ==
    LET hunk == HunkOf(r)
    IN IF hunk.present
       THEN /\ r.lineRange.defined
            /\ r.lineRange.start = hunk.newStart
            /\ r.lineRange.end - r.lineRange.start + 1 = (IF hunk.hasNewLines THEN hunk.newLines ELSE 1)
       ELSE ~r.lineRange.defined

SideContext(watch, filePath, content) ==
    CASE watch.type = "regex" -> extractMatches(watch, content).context
      [] watch.type = "tsq" ->
            LET ext == IF ~Falsy(watch.language) THEN watch.language ELSE extname(filePath)
            IN tsqExtractNodes(watch, getLanguageForExtension(ext), content).context
      [] OTHER -> <<>>

\* the key/value maps extracted on the left side followed by those of the right side
ExtractedMaps ==
    Flatten(SideContext(wWatch, wFilePath, wVersions.oldContent))
        \o Flatten(SideContext(wWatch, wFilePath, wVersions.newContent))

\* the key/value maps a FilterResult's context holds, however they are grouped
HeldMaps(r) == IF r.hasContext THEN Flatten(r.context) ELSE <<>>

\* C17: FilterResult.context is the deduplicated union of the key/value maps
\* extracted from the left and from the right side: every extracted map is in
\* it exactly once, also when it was produced on both sides or twice on one side
C17_ContextIsDeduplicatedUnion ==
    wResult.status = "result" =>
        LET held == HeldMaps(wResult.result)
        IN /\ {held[i] : i \in 1..Len(held)} = {ExtractedMaps[i] : i \in 1..Len(ExtractedMaps)}
           /\ \A i, j \in 1..Len(held) : held[i] = held[j] => i = j

\* C18: the regex watch compiles its pattern with both the global and the
\* multiline flag for every value of the user's flags, and compiling a valid
\* pattern with the user's valid flags added succeeds
C18_GlobalAndMultilineAlways ==
    (wResult # Pending /\ wWatch.type = "regex") =>
        LET chars == FlagChars(effectiveFlags(wWatch.flags))
        IN /\ \E i \in 1..Len(chars) : chars[i] = "g"
           /\ \E i \in 1..Len(chars) : chars[i] = "m"
           /\ (ValidFlags(wWatch.flags) /\ wWatch.pattern # "(") =>
                  ~(wResult.status = "throw" /\ wResult.err \in {ErrRegExp, ErrRegExpFlags})

\* C19: the tsq watch takes its language from the configured language, else
\* from the extension of the file path; with neither it fails with "requires a
\* file extension", with an extension that is not supported it fails with
\* "unsupported language", and in every other case it raises nothing
\* (checked where every grammar is installed)
C19_TsqLanguageResolution ==
    (wResult # Pending /\ wWatch.type = "tsq" /\ env.grammars) =>
        LET ext == IF wWatch.language # "" THEN wWatch.language ELSE extname(wFilePath)
        IN IF ext = "" THEN wResult = WThrow(ErrTsqNoExt)
           ELSE IF toLowerCase(ext) \notin SupportedExtensions THEN wResult = WThrow(ErrTsqUnsupported)
           ELSE wResult.status # "throw"

-----------------------------------------------------------------------------
(* SpecTemp: one call of createDiffText, await by await, with the temporary
   files it leaves in tmpdir() *)

TempArtifacts == {"", "1.0.0", "2.0.0", TxtVersions}

\* what a failing writeFile rejects with
ErrWrite == "ENOSPC: no space left on device, write"

InitTemp ==
    /\ mode = "temp"
    /\ tLeft \in TempArtifacts
    /\ tRight \in TempArtifacts
    /\ tFault \in {"none", "left", "right"}
    /\ tPc = "writeLeft"
    /\ tFiles = {}
    /\ tResult = Pending
    /\ env \in {AllInstalled, [AllInstalled EXCEPT !.diff = FALSE]}
    /\ wWatch = NoWatch /\ wVersions = NoVersions /\ wFilePath = "" /\ wResult = Pending
    /\ RunIdle /\ ResolveIdle /\ DiffIdle /\ GrammarIdle /\ CheckIdle /\ NotifyIdle

\* await writeFile(leftPath, left), before the try: a failing write rejects the
\* call, and may have created the file before it failed
WriteLeft ==
    /\ mode = "temp" /\ tPc = "writeLeft"
    /\ IF tFault = "left"
       THEN /\ \E created \in BOOLEAN : tFiles' = IF created THEN {"left"} ELSE {}
            /\ tResult' = Throw(ErrWrite)
            /\ tPc' = "done"
       ELSE /\ tFiles' = {"left"}
            /\ tPc' = "writeRight"
            /\ UNCHANGED tResult
    /\ UNCHANGED <<mode, env, tLeft, tRight, tFault>>
    /\ UNCHANGED <<watchVars, runVars, resolveVars, diffVars, grammarVars, checkVars, notifyVars>>

\* await writeFile(rightPath, right), still before the try
WriteRight ==
    /\ mode = "temp" /\ tPc = "writeRight"
    /\ IF tFault = "right"
       THEN /\ \E created \in BOOLEAN : tFiles' = IF created THEN tFiles \cup {"right"} ELSE tFiles
            /\ tResult' = Throw(ErrWrite)
            /\ tPc' = "done"
       ELSE /\ tFiles' = tFiles \cup {"right"}
            /\ tPc' = "spawn"
            /\ UNCHANGED tResult
    /\ UNCHANGED <<mode, env, tLeft, tRight, tFault>>
    /\ UNCHANGED <<watchVars, runVars, resolveVars, diffVars, grammarVars, checkVars, notifyVars>>

\* try: spawn diff -u and await its 'close' (stdout) or 'error' ('')
SpawnDiff ==
    /\ mode = "temp" /\ tPc = "spawn"
    /\ tResult' = Ok(createDiffText(tLeft, tRight).text)
    /\ tPc' = "unlinkLeft"
    /\ UNCHANGED <<mode, env, tLeft, tRight, tFault, tFiles>>
    /\ UNCHANGED <<watchVars, runVars, resolveVars, diffVars, grammarVars, checkVars, notifyVars>>

\* finally: await unlink(leftPath).catch(() => {})
UnlinkLeft ==
    /\ mode = "temp" /\ tPc = "unlinkLeft"
    /\ tFiles' = tFiles \ {"left"}
    /\ tPc' = "unlinkRight"
    /\ UNCHANGED <<mode, env, tLeft, tRight, tFault, tResult>>
    /\ UNCHANGED <<watchVars, runVars, resolveVars, diffVars, grammarVars, checkVars, notifyVars>>

\* finally: await unlink(rightPath).catch(() => {}), then return result
UnlinkRight ==
    /\ mode = "temp" /\ tPc = "unlinkRight"
    /\ tFiles' = tFiles \ {"right"}
    /\ tPc' = "done"
    /\ UNCHANGED <<mode, env, tLeft, tRight, tFault, tResult>>
    /\ UNCHANGED <<watchVars, runVars, resolveVars, diffVars, grammarVars, checkVars, notifyVars>>

NextTemp == WriteLeft \/ WriteRight \/ SpawnDiff \/ UnlinkLeft \/ UnlinkRight

SpecTemp == InitTemp /\ [][NextTemp]_vars

\* C20: every temporary file created to compute an artifact diff is unlinked
\* by the time createDiffText returns or throws: on normal completion, when
\* diff cannot be spawned, and when writing either temporary file fails
C20_TempFilesUnlinked ==
    tPc = "done" => tFiles = {}

-----------------------------------------------------------------------------
(* SpecGrammar: tsq watch runs started concurrently in one process, each up to
   the grammar it gets from getLanguageForExtension; a step runs from one
   await to the next *)

MaxRuns == 2
Runs == 1..MaxRuns

GrammarExtensions == {".js", ".mjs", ".ts", ".xyz"}

\* LANGUAGE_WASM_MAP[ext.toLowerCase()], Null when the map has no such key
WasmOf(ext) ==
    CASE toLowerCase(ext) \in {".js", ".jsx", ".mjs"} -> "tree-sitter-javascript/tree-sitter-javascript.wasm"
      [] toLowerCase(ext) = ".ts" -> "tree-sitter-typescript/tree-sitter-typescript.wasm"
      [] OTHER -> Null

WasmFiles == {WasmOf(e) : e \in GrammarExtensions} \ {Null}

InitGrammar ==
    /\ mode = "grammar"
    /\ gExt \in [Runs -> GrammarExtensions]
    /\ gPc = [r \in Runs |-> "init"]
    /\ gRet = [r \in Runs |-> Pending]
    /\ treeSitterInitialized = FALSE
    /\ languageCache = {}
    /\ gLoads = [w \in WasmFiles |-> 0]
    /\ env \in {AllInstalled, [AllInstalled EXCEPT !.grammars = FALSE]}
    /\ wWatch = NoWatch /\ wVersions = NoVersions /\ wFilePath = "" /\ wResult = Pending
    /\ RunIdle /\ ResolveIdle /\ DiffIdle /\ TempIdle /\ CheckIdle /\ NotifyIdle

\* initTreeSitter after `await getTreeSitter()`: tests the flag and, when it
\* is unset, calls Parser.init and awaits it
InitTreeSitter(r) ==
    /\ mode = "grammar" /\ gPc[r] = "init"
    /\ gPc' = [gPc EXCEPT ![r] = IF treeSitterInitialized THEN "lookup" ELSE "initializing"]
    /\ UNCHANGED <<mode, env, gExt, gRet, treeSitterInitialized, languageCache, gLoads>>
    /\ UNCHANGED <<watchVars, runVars, resolveVars, diffVars, tempVars, checkVars, notifyVars>>

\* initTreeSitter after `await ts.Parser.init(...)`
ParserInitDone(r) ==
    /\ mode = "grammar" /\ gPc[r] = "initializing"
    /\ treeSitterInitialized' = TRUE
    /\ gPc' = [gPc EXCEPT ![r] = "lookup"]
    /\ UNCHANGED <<mode, env, gExt, gRet, languageCache, gLoads>>
    /\ UNCHANGED <<watchVars, runVars, resolveVars, diffVars, tempVars, checkVars, notifyVars>>

\* getLanguageForExtension up to `await ts.Language.load(wasmPath)`
LookupLanguage(r) ==
    /\ mode = "grammar" /\ gPc[r] = "lookup"
    /\ LET wasmRelPath == WasmOf(gExt[r])
       IN IF wasmRelPath = Null
          THEN /\ gRet' = [gRet EXCEPT ![r] = Ok(Null)]
               /\ gPc' = [gPc EXCEPT ![r] = "done"]
               /\ UNCHANGED gLoads
          ELSE IF wasmRelPath \in languageCache
          THEN /\ gRet' = [gRet EXCEPT ![r] = Ok(wasmRelPath)]
               /\ gPc' = [gPc EXCEPT ![r] = "done"]
               /\ UNCHANGED gLoads
          ELSE /\ gLoads' = [gLoads EXCEPT ![wasmRelPath] = @ + 1]
               /\ gPc' = [gPc EXCEPT ![r] = "loading"]
               /\ UNCHANGED gRet
    /\ UNCHANGED <<mode, env, gExt, treeSitterInitialized, languageCache>>
    /\ UNCHANGED <<watchVars, runVars, resolveVars, diffVars, tempVars, checkVars, notifyVars>>

\* getLanguageForExtension after Language.load settled: cache and return the
\* language, or return null from the catch
LanguageLoadDone(r) ==
    /\ mode = "grammar" /\ gPc[r] = "loading"
    /\ IF env.grammars
       THEN /\ languageCache' = languageCache \cup {WasmOf(gExt[r])}
            /\ gRet' = [gRet EXCEPT ![r] = Ok(WasmOf(gExt[r]))]
       ELSE /\ gRet' = [gRet EXCEPT ![r] = Ok(Null)]
            /\ UNCHANGED languageCache
    /\ gPc' = [gPc EXCEPT ![r] = "done"]
    /\ UNCHANGED <<mode, env, gExt, treeSitterInitialized, gLoads>>
    /\ UNCHANGED <<watchVars, runVars, resolveVars, diffVars, tempVars, checkVars, notifyVars>>

NextGrammar ==
    \E r \in Runs : InitTreeSitter(r) \/ ParserInitDone(r) \/ LookupLanguage(r) \/ LanguageLoadDone(r)

SpecGrammar == InitGrammar /\ [][NextGrammar]_vars

\* C21: within one process each language grammar is loaded at most once, also
\* when several tsq watch runs ask for the same language before the first load
\* has completed (checked where the grammars load)
C21_GrammarLoadedOnce ==
    env.grammars => \A w \in DOMAIN gLoads : gLoads[w] <= 1

-----------------------------------------------------------------------------
(* SpecCheck: processFiles of the checkset runner, one (file, checkset) pair
   per step; context.concerns accumulates what update actions set *)

\* {...a, ...b}
Spread(a, b) == [k \in DOMAIN a \cup DOMAIN b |-> IF k \in DOMAIN b THEN b[k] ELSE a[k]]

\* applyRegexFilter(versions, args) of the checkset runner's filters
applyRegexFilter(versions, args) ==
    LET flags == IF IncludesG(args.flags) THEN args.flags ELSE args.flags \o "gm"
        extract(content) ==
            IF Falsy(content) THEN ""
            ELSE LET matches == matchAll(content, args.pattern, flags)
                 IN JoinWith([i \in 1..Len(matches) |-> matches[i].text], "\n")
        leftArtifact == extract(versions.oldContent)
        rightArtifact == extract(versions.newContent)
    IN IF ~RegExpCompiles(args.pattern, flags) THEN WThrow(ErrRegExp)
       ELSE IF versions.oldContent = Null /\ versions.newContent = Null THEN WNull
       ELSE createFilterResult(leftArtifact, rightArtifact, FALSE)

\* applyFilter(filter, versions, filePath)
applyFilter(filter, versions, filePath) ==
    IF filter.type = "regex" THEN applyRegexFilter(versions, filter)
    ELSE WThrow("Unsupported filter type")

\* executeReportAction(action, filterResult, {filePath})
executeReportAction(action, filterResult, context) ==
    LET content == JoinWith([i \in 1..Len(action.template) |->
                                RenderPart(action.template[i], filterResult, context)], "")
    IN [content |-> content, fileName |-> context.filePath, urgency |-> action.urgency]

\* executeUpdateConcernContextAction(action, filterResult, {filePath})
executeUpdateConcernContextAction(action, filterResult, context) ==
    [key \in DOMAIN action.set |->
        JoinWith([i \in 1..Len(action.set[key]) |->
                     RenderPart(action.set[key][i], filterResult, context)], "")]

isReportAction(action) == "template" \in DOMAIN action
isUpdateConcernContextAction(action) == "set" \in DOMAIN action

RECURSIVE SpreadInto(_, _, _)
\* the loop of applyConcernContextUpdates over concernIds
SpreadInto(cc, concernIds, updates) ==
    IF concernIds = <<>> THEN cc
    ELSE LET concernId == Head(concernIds)
             entry == IF concernId \in DOMAIN cc THEN cc[concernId] ELSE <<>>
         IN SpreadInto(Spread(cc, [c \in {concernId} |-> Spread(entry, updates)]),
                       Tail(concernIds), updates)

\* applyConcernContextUpdates with the spread the other way round: a key keeps
\* the value it was first given
applyConcernContextUpdates_firstWins(action, checkset, cc, filePath, filterResult) ==
    IF ~checkset.hasConcerns THEN cc
    ELSE LET updates == executeUpdateConcernContextAction(action, filterResult, [filePath |-> filePath])
             ids == {checkset.concerns[i] : i \in 1..Len(checkset.concerns)}
         IN [c \in DOMAIN cc \cup ids |->
                IF c \notin ids THEN cc[c]
                ELSE IF c \in DOMAIN cc THEN Spread(updates, cc[c]) ELSE updates]

\* applyConcernContextUpdates({action, concernIds, context, filePath, filterResult})
applyConcernContextUpdates(action, checkset, cc, filePath, filterResult) ==
    IF ~checkset.hasConcerns THEN cc
    ELSE SpreadInto(cc, checkset.concerns,
                    executeUpdateConcernContextAction(action, filterResult, [filePath |-> filePath]))

RECURSIVE processActions(_, _, _, _, _, _)
\* processActions: the reports pushed and context.concerns afterwards
processActions(actions, checkset, cc, filePath, filterResult, acc) ==
    IF actions = <<>> THEN [concerns |-> cc, reports |-> acc]
    ELSE LET action == Head(actions)
         IN IF isReportAction(action)
            THEN processActions(Tail(actions), checkset, cc, filePath, filterResult,
                                Append(acc, executeReportAction(action, filterResult, [filePath |-> filePath])))
            ELSE IF isUpdateConcernContextAction(action)
            THEN processActions(Tail(actions), checkset,
                                applyConcernContextUpdates(action, checkset, cc, filePath, filterResult),
                                filePath, filterResult, acc)
            ELSE processActions(Tail(actions), checkset, cc, filePath, filterResult, acc)

RECURSIVE ApplyFilters(_, _, _, _)
\* the filter loop of processCheck: the outcome of every applyFilter call it
\* makes, in order; it stops at the first null or throw
ApplyFilters(filters, versions, filePath, done) ==
    IF filters = <<>> THEN done
    ELSE LET r == applyFilter(Head(filters), versions, filePath)
         IN IF r.status # "result" THEN Append(done, r)
            ELSE ApplyFilters(Tail(filters), versions, filePath, Append(done, r))

\* processCheck after its filter loop, given the outcome of every applyFilter
\* call the loop made: reports, context.concerns afterwards, the watch runs
\* made and the error thrown, if any
AfterFilters(check, checkset, cc, filePath, versions, results) ==
    LET runs == [i \in 1..Len(results) |->
                    [filter |-> check.filters[i], versions |-> versions, filePath |-> filePath,
                     concerns |-> cc, result |-> results[i]]]
        last == IF results = <<>> THEN WNull ELSE results[Len(results)]
    IN IF last.status = "throw" THEN [concerns |-> cc, reports |-> <<>>, runs |-> runs, err |-> last.err]
       ELSE IF last.status = "null" THEN [concerns |-> cc, reports |-> <<>>, runs |-> runs, err |-> ""]
       ELSE LET done == processActions(check.actions, checkset, cc, filePath, last.result, <<>>)
            IN [concerns |-> done.concerns, reports |-> done.reports, runs |-> runs, err |-> ""]

\* a processCheck whose filters report no change once one of the checkset's
\* concerns has context
processCheck_consultsContext(check, checkset, cc, filePath, versions) ==
    AfterFilters(check, checkset, cc, filePath, versions,
        IF checkset.hasConcerns /\ \E i \in 1..Len(checkset.concerns) : checkset.concerns[i] \in DOMAIN cc
        THEN (IF check.filters = <<>> THEN <<>> ELSE <<WNull>>)
        ELSE ApplyFilters(check.filters, versions, filePath, <<>>))

\* processCheck({check, concernIds, context, filePath, versions})
processCheck(check, checkset, cc, filePath, versions) ==
    AfterFilters(check, checkset, cc, filePath, versions,
                 ApplyFilters(check.filters, versions, filePath, <<>>))

RECURSIVE processChecks(_, _, _, _, _)
\* the loop of processCheckset over checkset.checks
processChecks(checks, checkset, acc, filePath, versions) ==
    IF checks = <<>> \/ acc.err # "" THEN acc
    ELSE LET r == processCheck(Head(checks), checkset, acc.concerns, filePath, versions)
         IN processChecks(Tail(checks), checkset,
                          [concerns |-> r.concerns, reports |-> acc.reports \o r.reports,
                           runs |-> acc.runs \o r.runs, err |-> r.err],
                          filePath, versions)

\* processCheckset({checkset, context, file})
processCheckset(checkset, cc, file) ==
    LET filePath == effectivePath(file)
        none == [concerns |-> cc, reports |-> <<>>, runs |-> <<>>, err |-> ""]
    IN IF ~minimatch(filePath, checkset.include) THEN none @@ [calls |-> <<>>]
       ELSE LET got == getFileVersions(file, Refs)
            IN processChecks(checkset.checks, checkset, none, filePath, got.versions) @@ [calls |-> got.calls]

RegexFilter(pattern) == [type |-> "regex", pattern |-> pattern, flags |-> ""]
SetAction(set) == [set |-> set]
ReportAction(template) == [template |-> template, urgency |-> 1]
Check(filters, actions) == [filters |-> filters, actions |-> actions]
Checkset(include, hasConcerns, cs, checks) ==
    [include |-> include, hasConcerns |-> hasConcerns, concerns |-> cs, checks |-> checks]

\* checksets: one that records the file where foo changed; one with two checks
\* and two concerns, whose second check overwrites a key of the first; one
\* without concerns; one for the package file
CheckDefs ==
    {Checkset("*.js", TRUE, <<"api">>,
        <<Check(<<RegexFilter("foo")>>, <<SetAction([changed |-> <<"{{filePath}}">>])>>)>>),
     Checkset("*.js", TRUE, <<"api", "sec">>,
        <<Check(<<RegexFilter("foo")>>,
                <<SetAction([changed |-> <<"yes">>, foundFoo |-> <<"true">>]), ReportAction(Template("foo"))>>),
          Check(<<RegexFilter("foo"), RegexFilter(SemverPattern)>>, <<SetAction([changed |-> <<"never">>])>>),
          Check(<<RegexFilter("foo")>>, <<SetAction([changed |-> <<"{{right.artifact}}">>])>>)>>),
     Checkset("*.js", FALSE, <<>>,
        <<Check(<<RegexFilter("foo")>>, <<SetAction([changed |-> <<"lost">>])>>)>>),
     Checkset("*.json", TRUE, <<"deps">>,
        <<Check(<<RegexFilter(SemverPattern)>>, <<SetAction([version |-> <<"{{right.artifact}}">>])>>)>>)}

MaxChecksets == 2

CheckFiles == {File("modify", "a.js", "a.js"), File("modify", "b.js", "b.js"), File("add", DevNull, "pkg.json")}

\* a repository where foo comes and goes in a.js and b.js, and one where only a.js changes
CheckRepositories ==
    {[ref \in {"BASE", "HEAD"} |->
        [path \in Paths |->
            CASE ref = "BASE" /\ path = "a.js" -> JsFoo
              [] ref = "HEAD" /\ path = "a.js" -> JsBar
              [] ref = "BASE" /\ path = "b.js" -> JsBar
              [] ref = "HEAD" /\ path = "b.js" -> JsFoo
              [] ref = "HEAD" /\ path = "pkg.json" -> JsonV1
              [] OTHER -> Null]],
     [ref \in {"BASE", "HEAD"} |->
        [path \in Paths |->
            CASE ref = "BASE" /\ path = "a.js" -> JsFoo
              [] ref = "HEAD" /\ path = "a.js" -> JsBar
              [] path = "b.js" -> JsFoo
              [] OTHER -> Null]]}

InitCheck ==
    /\ mode = "check"
    /\ config \in [checksets : SeqsUpTo(CheckDefs, MaxChecksets)]
    /\ files \in {d \in SeqsUpTo(CheckFiles, MaxFiles) : \A i, j \in 1..Len(d) : i # j => d[i] # d[j]}
    /\ store \in CheckRepositories
    /\ concerns = <<>>
    /\ pc = "checkset" /\ fi = 1 /\ ci = 1 /\ si = 0
    /\ reports = <<>> /\ outcome = "running" /\ thrown = "" /\ cur = NoCur
    /\ calls = <<>> /\ trail = <<>>
    /\ yaml = NoYaml
    /\ env = AllInstalled
    /\ wWatch = NoWatch /\ wVersions = NoVersions /\ wFilePath = "" /\ wResult = Pending
    /\ ResolveIdle /\ DiffIdle /\ TempIdle /\ GrammarIdle /\ NotifyIdle

\* one turn of the inner loop of processFiles: await processCheckset for the
\* current file and checkset, push its reports, move on
ProcessCheckset ==
    /\ mode = "check" /\ pc = "checkset" /\ fi <= Len(files)
    /\ LET r == processCheckset(config.checksets[ci], concerns, files[fi])
       IN /\ concerns' = r.concerns
          /\ trail' = trail \o r.runs
          /\ calls' = calls \o r.calls
          /\ IF r.err # ""
             THEN /\ outcome' = "threw" /\ thrown' = r.err /\ pc' = "done"
                  /\ UNCHANGED <<reports, fi, ci>>
             ELSE /\ reports' = reports \o r.reports
                  /\ IF ci < Len(config.checksets)
                     THEN ci' = ci + 1 /\ fi' = fi
                     ELSE ci' = 1 /\ fi' = fi + 1
                  /\ UNCHANGED <<outcome, thrown, pc>>
    /\ UNCHANGED <<mode, env, yaml, config, files, store, si, cur>>
    /\ UNCHANGED <<watchVars, resolveVars, diffVars, tempVars, grammarVars, notifyVars>>

\* return {concerns: context.concerns, reports}
ReturnCheck ==
    /\ mode = "check" /\ pc = "checkset" /\ fi > Len(files)
    /\ pc' = "done" /\ outcome' = "returned"
    /\ UNCHANGED <<mode, env, yaml, config, files, store, fi, ci, si, reports, thrown, cur, calls, trail, concerns>>
    /\ UNCHANGED <<watchVars, resolveVars, diffVars, tempVars, grammarVars, notifyVars>>

NextCheck == ProcessCheckset \/ ReturnCheck

SpecCheck == InitCheck /\ [][NextCheck]_vars

-----------------------------------------------------------------------------
(* Claims about the checkset runner *)

\* the reports of the run when every watch is run with nothing in the concern context
ContextFreeReports ==
    Flatten([f \in 1..Len(files) |->
        Flatten([c \in 1..Len(config.checksets) |->
            processCheckset([config.checksets[c] EXCEPT !.hasConcerns = FALSE], <<>>, files[f]).reports])])

\* C22: concern context set while processing earlier files or checks is never
\* consulted by a watch: every watch run yields what the watch yields on its
\* versions and path alone, and the reports of the run are those of a run in
\* which no context is ever set
C22_WatchesIgnoreConcernContext ==
    /\ \A i \in 1..Len(trail) :
          trail[i].result = applyFilter(trail[i].filter, trail[i].versions, trail[i].filePath)
    /\ outcome = "returned" => reports = ContextFreeReports

\* C22 witness: a watch ran while the concern context of its checkset was set,
\* and returned a FilterResult
C22_Witness ==
    /\ outcome = "returned"
    /\ \E i \in 1..Len(trail) : trail[i].concerns # <<>> /\ trail[i].result.status = "result"

\* the update actions that the turn of one file and checkset triggers, in the
\* declared order of checks and actions: the concern ids listed and the pairs set
TriggeredUpdates(file, checkset) ==
    IF ~minimatch(effectivePath(file), checkset.include) \/ ~checkset.hasConcerns THEN <<>>
    ELSE Flatten([k \in 1..Len(checkset.checks) |->
            LET check == checkset.checks[k]
                results == [i \in 1..Len(check.filters) |->
                               applyFilter(check.filters[i], getFileVersions(file, Refs).versions,
                                           effectivePath(file))]
                updating == SelectSeq(check.actions, LAMBDA a : "set" \in DOMAIN a)
            IN IF results = <<>> \/ \E i \in 1..Len(results) : results[i].status # "result" THEN <<>>
               ELSE [a \in 1..Len(updating) |->
                        [ids |-> {checkset.concerns[i] : i \in 1..Len(checkset.concerns)},
                         set |-> executeUpdateConcernContextAction(updating[a], results[Len(results)].result,
                                                                   [filePath |-> effectivePath(file)])]]])

\* the triggered update actions of the turns taken so far, in traversal order
UpdatesSoFar ==
    Flatten([f \in 1..Len(files) |->
        Flatten([c \in 1..Len(config.checksets) |->
            IF f < fi \/ (f = fi /\ c < ci) THEN TriggeredUpdates(files[f], config.checksets[c]) ELSE <<>>])])

\* C30: in the checkset runner the concern context of a concern id holds, for
\* every key set by a triggered update action of a checkset that lists the id,
\* the value written by the last such action in traversal order; no key is
\* lost, and an id that no triggered update action lists has no entry
C30_ContextIsLastWrite ==
    (mode = "check" /\ outcome # "threw") =>
        /\ DOMAIN concerns = UNION {UpdatesSoFar[i].ids : i \in 1..Len(UpdatesSoFar)}
        /\ \A id \in DOMAIN concerns :
              LET mine == SelectSeq(UpdatesSoFar, LAMBDA u : id \in u.ids)
              IN /\ DOMAIN concerns[id] = UNION {DOMAIN mine[i].set : i \in 1..Len(mine)}
                 /\ \A key \in DOMAIN concerns[id] :
                       \E i \in 1..Len(mine) :
                          /\ key \in DOMAIN mine[i].set
                          /\ \A j \in (i + 1)..Len(mine) : key \notin DOMAIN mine[j].set
                          /\ concerns[id][key] = mine[i].set[key]

\* C30 witness: processFiles returned, and a key of a concern was written by
\* two triggered actions with different values
C30_Witness ==
    /\ outcome = "returned"
    /\ \E id \in DOMAIN concerns :
          \E i, j \in 1..Len(UpdatesSoFar) :
             /\ i < j /\ id \in UpdatesSoFar[i].ids /\ id \in UpdatesSoFar[j].ids
             /\ \E key \in DOMAIN UpdatesSoFar[i].set \cap DOMAIN UpdatesSoFar[j].set :
                   UpdatesSoFar[i].set[key] # UpdatesSoFar[j].set[key]

-----------------------------------------------------------------------------
(* SpecNotify: one call of processNotifications. A comma-separated option is
   held as the pieces between its commas (<<>> when the option is absent);
   a Set is held as the sequence of its members in insertion order *)

\* String.prototype.trim on the pieces used below
trim(piece) ==
    CASE piece = " @alice" -> "@alice"
      [] piece = " bug" -> "bug"
      [] piece = " ci.yml" -> "ci.yml"
      [] piece = " " -> ""
      [] OTHER -> piece

\* parseList(input): split(','), trim, filter(Boolean)
parseList(input) == SelectSeq([i \in 1..Len(input) |-> trim(input[i])], LAMBDA t : t # "")

\* m.startsWith('@')
startsWithAt(m) == m \in {"@alice", "@bob", "@org/team", "@org2/team", "@org/"}

\* reviewer.replace(/^@/, '')
stripAt(reviewer) ==
    CASE reviewer = "@alice" -> "alice"
      [] reviewer = "@bob" -> "bob"
      [] reviewer = "@org/team" -> "org/team"
      [] reviewer = "@org2/team" -> "org2/team"
      [] reviewer = "@org/" -> "org/"
      [] OTHER -> reviewer

\* clean.includes('/')
includesSlash(clean) == clean \in {"org/team", "org2/team", "org/"}

\* clean.split('/')[1]
teamSlugOf(clean) == IF clean \in {"org/team", "org2/team"} THEN "team" ELSE ""

\* the loop of processNotifications, without the Set: every target of one
\* option over all configs, repeated as often as it is written
collect_everyOccurrence(configs, option) ==
    Flatten([i \in 1..Len(configs) |-> parseList(configs[i][option])])

\* the loop of processNotifications for one option: the Set it builds
collect(configs, option) ==
    Dedup(Flatten([i \in 1..Len(configs) |-> parseList(configs[i][option])]))

\* what a step did: the API calls it issued, the warnings it logged, whether it threw
Step(issued, warned, threw) == [calls |-> issued, warnings |-> warned, threw |-> threw]

\* one awaited API call inside try/catch
Guarded(call, fails, warning) ==
    IF call.api \in fails THEN Step(<<call>>, <<warning>>, FALSE) ELSE Step(<<call>>, <<>>, FALSE)

\* processMentions without its try/catch
processMentions_uncaught(mentions, fails) ==
    LET validMentions == SelectSeq(mentions, startsWithAt)
    IN IF Len(mentions) = 0 \/ Len(validMentions) = 0 THEN Step(<<>>, <<>>, FALSE)
       ELSE Step(<<[api |-> "createComment", mentions |-> validMentions]>>, <<>>, "createComment" \in fails)

\* processMentions(mentions, context)
processMentions(mentions, fails) ==
    LET validMentions == SelectSeq(mentions, startsWithAt)
    IN IF Len(mentions) = 0 \/ Len(validMentions) = 0 THEN Step(<<>>, <<>>, FALSE)
       ELSE Guarded([api |-> "createComment", mentions |-> validMentions], fails,
                    "Failed to post mention comment:")

\* processReviewers(reviewers, context)
processReviewers(reviewers, fails) ==
    LET at == SelectSeq(reviewers, startsWithAt)
        users == SelectSeq([i \in 1..Len(at) |-> stripAt(at[i])], LAMBDA c : ~includesSlash(c))
        slugs == SelectSeq([i \in 1..Len(at) |-> stripAt(at[i])], includesSlash)
        teams == SelectSeq([i \in 1..Len(slugs) |-> teamSlugOf(slugs[i])], LAMBDA t : t # "")
    IN IF Len(reviewers) = 0 \/ (Len(users) = 0 /\ Len(teams) = 0) THEN Step(<<>>, <<>>, FALSE)
       ELSE Guarded([api |-> "requestReviewers", reviewers |-> users, team_reviewers |-> teams], fails,
                    "Failed to request reviewers:")

\* processLabels(labels, context)
processLabels(labels, fails) ==
    IF Len(labels) = 0 THEN Step(<<>>, <<>>, FALSE)
    ELSE Guarded([api |-> "addLabels", labels |-> labels], fails, "Failed to add labels:")

\* processWorkflows(workflows, context): every dispatch is issued, then
\* Promise.allSettled, then a warning for each that rejected
processWorkflows(workflows, fails) ==
    LET failed == SelectSeq(workflows, LAMBDA w : w \in fails)
    IN Step([i \in 1..Len(workflows) |-> [api |-> "createWorkflowDispatch", workflow_id |-> workflows[i]]],
            [i \in 1..Len(failed) |-> "Failed to dispatch workflow " \o failed[i] \o ":"],
            FALSE)

NotifyConfig(mention, reviewer, label, workflow) ==
    [github_mention |-> mention, github_assign_reviewer |-> reviewer,
     github_label |-> label, github_workflow |-> workflow]

NotifyConfigs ==
    {NotifyConfig(<<"@alice">>, <<>>, <<"bug">>, <<"ci.yml">>),
     NotifyConfig(<<"@bob", " @alice">>, <<"@alice", "@org/team">>, <<"urgent", " bug">>, <<"sec.yml", " ci.yml">>),
     NotifyConfig(<<"carol">>, <<"carol", "@org/">>, <<"">>, <<>>),
     NotifyConfig(<<"carol", "@bob", " ">>, <<"@org2/team", "@bob">>, <<>>, <<"ci.yml">>),
     NotifyConfig(<<>>, <<>>, <<>>, <<>>)}

MaxConfigs == 2

ApiCalls == {"createComment", "requestReviewers", "addLabels", "ci.yml", "sec.yml"}

InitNotify ==
    /\ mode = "notify"
    /\ nConfigs \in {<<>>} \cup SeqsUpTo(NotifyConfigs, MaxConfigs)
    /\ nFail \in SUBSET ApiCalls
    /\ nPc = "mentions"
    /\ nCalls = <<>> /\ nWarnings = <<>> /\ nResult = "pending"
    /\ env = AllInstalled
    /\ wWatch = NoWatch /\ wVersions = NoVersions /\ wFilePath = "" /\ wResult = Pending
    /\ RunIdle /\ ResolveIdle /\ DiffIdle /\ TempIdle /\ GrammarIdle /\ CheckIdle

\* a step of processNotifications done: on to the next one, or the rejection
AfterStep(step, next) ==
    /\ nCalls' = nCalls \o step.calls
    /\ nWarnings' = nWarnings \o step.warnings
    /\ IF step.threw THEN nPc' = "done" /\ nResult' = "threw"
       ELSE /\ nPc' = next
            /\ nResult' = IF next = "done" THEN "returned" ELSE nResult
    /\ UNCHANGED <<mode, env, nConfigs, nFail>>
    /\ UNCHANGED <<watchVars, runVars, resolveVars, diffVars, tempVars, grammarVars, checkVars>>

\* the collecting loop, then await processMentions(mentions, context)
ProcessMentions ==
    /\ mode = "notify" /\ nPc = "mentions"
    /\ AfterStep(processMentions(collect(nConfigs, "github_mention"), nFail), "reviewers")

\* await processReviewers(reviewers, context)
ProcessReviewers ==
    /\ mode = "notify" /\ nPc = "reviewers"
    /\ AfterStep(processReviewers(collect(nConfigs, "github_assign_reviewer"), nFail), "labels")

\* await processLabels(labels, context)
ProcessLabels ==
    /\ mode = "notify" /\ nPc = "labels"
    /\ AfterStep(processLabels(collect(nConfigs, "github_label"), nFail), "workflows")

\* await processWorkflows(workflows, context), and return
ProcessWorkflows ==
    /\ mode = "notify" /\ nPc = "workflows"
    /\ AfterStep(processWorkflows(collect(nConfigs, "github_workflow"), nFail), "done")

NextNotify == ProcessMentions \/ ProcessReviewers \/ ProcessLabels \/ ProcessWorkflows

SpecNotify == InitNotify /\ [][NextNotify]_vars

-----------------------------------------------------------------------------
(* Claims about the notifications *)

\* the targets written for one option in all configs
Targets(option) ==
    UNION {{trim(nConfigs[i][option][j]) : j \in 1..Len(nConfigs[i][option])} : i \in 1..Len(nConfigs)} \ {""}

CallsTo(api) == SelectSeq(nCalls, LAMBDA c : c.api = api)
Members(seq) == {seq[i] : i \in 1..Len(seq)}
NoRepeat(seq) == \A i, j \in 1..Len(seq) : seq[i] = seq[j] => i = j

\* the name under which a review request carries a target
ReviewerName(target) ==
    IF includesSlash(stripAt(target)) THEN teamSlugOf(stripAt(target)) ELSE stripAt(target)

EachWorkflowOnce ==
    /\ \A w \in Targets("github_workflow") :
          Len(SelectSeq(CallsTo("createWorkflowDispatch"), LAMBDA c : c.workflow_id = w)) = 1
    /\ Len(CallsTo("createWorkflowDispatch")) = Cardinality(Targets("github_workflow"))

AtMostOneOfEach ==
    \A api \in {"createComment", "requestReviewers", "addLabels"} : Len(CallsTo(api)) <= 1

\* C23 as stated: one call issues at most one mention comment, one review
\* request and one add-labels call, each carrying the deduplicated union of
\* the targets of all configs, and dispatches each distinct workflow exactly once
C23_OneCallPerKindWithAllTargets ==
    nPc = "done" =>
        /\ AtMostOneOfEach
        /\ \A c \in Members(CallsTo("createComment")) :
              NoRepeat(c.mentions) /\ Members(c.mentions) = Targets("github_mention")
        /\ \A c \in Members(CallsTo("requestReviewers")) :
              /\ NoRepeat(c.reviewers) /\ NoRepeat(c.team_reviewers)
              /\ Members(c.reviewers) \cup Members(c.team_reviewers)
                    = {ReviewerName(t) : t \in Targets("github_assign_reviewer")}
        /\ \A c \in Members(CallsTo("addLabels")) :
              NoRepeat(c.labels) /\ Members(c.labels) = Targets("github_label")
        /\ EachWorkflowOnce

\* C23: one call issues at most one mention comment, one review request and
\* one add-labels call, and dispatches each distinct workflow exactly once.
\* The comment carries each distinct mention that starts with "@" once and is
\* not posted without one; the review request carries the user name of each
\* distinct "@user" target once and one team slug for each distinct
\* "@org/slug" target with a slug, and is not made without any; targets not
\* starting with "@" are in neither; the labels call carries each distinct label once
C23_OneCallPerKindWithAtTargets ==
    nPc = "done" =>
        LET mentions == {t \in Targets("github_mention") : startsWithAt(t)}
            at == {t \in Targets("github_assign_reviewer") : startsWithAt(t)}
            users == {stripAt(t) : t \in {u \in at : ~includesSlash(stripAt(u))}}
            teams == {t \in at : includesSlash(stripAt(t)) /\ teamSlugOf(stripAt(t)) # ""}
        IN /\ AtMostOneOfEach
           /\ Len(CallsTo("createComment")) = (IF mentions = {} THEN 0 ELSE 1)
           /\ \A c \in Members(CallsTo("createComment")) :
                 NoRepeat(c.mentions) /\ Members(c.mentions) = mentions
           /\ Len(CallsTo("requestReviewers")) = (IF users = {} /\ teams = {} THEN 0 ELSE 1)
           /\ \A c \in Members(CallsTo("requestReviewers")) :
                 /\ NoRepeat(c.reviewers) /\ Members(c.reviewers) = users
                 /\ Len(c.team_reviewers) = Cardinality(teams)
                 /\ Members(c.team_reviewers) = {teamSlugOf(stripAt(t)) : t \in teams}
           /\ Len(CallsTo("addLabels")) = (IF Targets("github_label") = {} THEN 0 ELSE 1)
           /\ \A c \in Members(CallsTo("addLabels")) :
                 NoRepeat(c.labels) /\ Members(c.labels) = Targets("github_label")
           /\ EachWorkflowOnce

\* C23 witness: two configs that share a mention, a label and a workflow, one
\* of them with a mention that lacks the "@"; one comment was posted
C23_Witness ==
    /\ nPc = "done" /\ Len(nConfigs) = 2
    /\ \E t \in Targets("github_mention") : ~startsWithAt(t)
    /\ Len(collect_everyOccurrence(nConfigs, "github_mention")) > Cardinality(Targets("github_mention"))
    /\ Len(CallsTo("createComment")) = 1
    /\ Len(CallsTo("addLabels")) = 1
    /\ Len(CallsTo("createWorkflowDispatch")) > 0

\* C24: a failing GitHub API call in one step is caught and reported as a
\* warning: processNotifications returns without throwing, every later step is
\* still attempted and every other workflow is still dispatched
C24_ApiFailuresAreWarnings ==
    nPc = "done" =>
        /\ nResult = "returned"
        /\ nCalls = processMentions(collect(nConfigs, "github_mention"), {}).calls
                       \o processReviewers(collect(nConfigs, "github_assign_reviewer"), {}).calls
                       \o processLabels(collect(nConfigs, "github_label"), {}).calls
                       \o processWorkflows(collect(nConfigs, "github_workflow"), {}).calls
        /\ Len(nWarnings) = Len(SelectSeq(nCalls, LAMBDA c :
                                   IF c.api = "createWorkflowDispatch" THEN c.workflow_id \in nFail
                                   ELSE c.api \in nFail))

\* C24 witness: the mention comment and one workflow dispatch failed, and the
\* labels call and another workflow dispatch were still made
C24_Witness ==
    /\ nPc = "done" /\ nResult = "returned"
    /\ "createComment" \in nFail /\ Len(CallsTo("createComment")) = 1
    /\ Len(CallsTo("addLabels")) = 1
    /\ \E c \in Members(CallsTo("createWorkflowDispatch")) : c.workflow_id \in nFail
    /\ \E c \in Members(CallsTo("createWorkflowDispatch")) : c.workflow_id \notin nFail
    /\ Len(nWarnings) >= 2

-----------------------------------------------------------------------------
(* More claims about the watches *)

\* the same watch on the same file with old and new content exchanged
Swapped == applyWatch(wWatch, [oldContent |-> wVersions.newContent, newContent |-> wVersions.oldContent], wFilePath)

\* C25: if a watch applied to (old, new) returns a FilterResult, then applied
\* to (new, old) it returns a FilterResult with the left and right artifacts
\* exchanged, whose lineRange, if present, is that of the new side of the
\* exchanged pair
C25_SwapSymmetry ==
    wResult.status = "result" =>
        /\ Swapped.status = "result"
        /\ Swapped.result.left.artifact = wResult.result.right.artifact
        /\ Swapped.result.right.artifact = wResult.result.left.artifact
        /\ Swapped.result.lineRange.defined => RangeIsNewSide(Swapped.result)

\* C25 witness: a FilterResult for content that lost its only match, whose
\* exchange is a FilterResult with a lineRange on the line that match is on
C25_Witness ==
    /\ wResult.status = "result"
    /\ wResult.result.left.artifact # "" /\ wResult.result.right.artifact = ""
    /\ Swapped.status = "result"
    /\ Swapped.result.lineRange = [defined |-> TRUE, start |-> 1, end |-> 1]
    /\ wResult.result.lineRange = [defined |-> TRUE, start |-> 0, end |-> 0 - 1]

\* C27: every lineRange attached to a FilterResult is a well-formed range of
\* line numbers, 1 <= start <= end, also when one of the two artifacts is empty
C27_LineRangeWellFormed ==
    (wResult.status = "result" /\ wResult.result.lineRange.defined) =>
        /\ 1 <= wResult.result.lineRange.start
        /\ wResult.result.lineRange.start <= wResult.result.lineRange.end

====
